---- MODULE Spec2Model ----
(***************************************************************************)
(* Commerce backend: catalog, users, orders and order items as committed   *)
(* database rows; every request handler runs in its own SQLAlchemy session *)
(* (SessionLocal, autoflush off), so a handler is a sequence of steps that *)
(* read committed rows into its session and make its writes visible only   *)
(* at db.commit().  Money is counted in cents (Numeric(10, 2)).            *)
(***************************************************************************)
EXTENDS Integers, Sequences, FiniteSets, TLC

VARIABLES
    products,     \* Product rows: id -> [exists, isActive, price, stockQuantity]
    users,        \* User rows keyed by phoneNumber (unique)
    orders,       \* Order rows, id = index
    orderItems,   \* OrderItem rows, id = index
    carts,        \* Cart rows, id = index; a deleted row stays as a tombstone
    cartItems,    \* CartItem rows, id = index; a deleted row stays as a tombstone
    bank_details, \* BusinessSettings.bank_details ("" when not configured)
    clock,        \* the database's clock, read by createdAt's server default
    pc,           \* per handler thread: where it stands
    loc,          \* per handler thread: the handler's locals and session
    res,          \* per handler thread: the last response it returned
    calls,        \* requests started so far
    stock0,       \* history: stockQuantity of each product at the start
    sold,         \* history: quantity per product over successful place_order calls
    sent,         \* calls of send_reply: [to, order_id, ran], ran = its body was run
    messages,     \* Message rows, id = index; a deleted row stays as a tombstone
    session_memory,       \* AIAgent.session_memory: user_id -> [present, ...]
    conversation_history  \* AIAgent.conversation_history: user_id -> [present, entries]

dbvars == <<products, users, orders, orderItems, carts, cartItems, bank_details>>
cartvars == <<carts, cartItems, bank_details>>
chatvars == <<messages, session_memory, conversation_history>>
vars == <<products, users, orders, orderItems, carts, cartItems, bank_details, clock,
          pc, loc, res, calls, stock0, chatvars, sold, sent>>

----------------------------------------------------------------------------
(* Bounds and input sets *)

MaxStock == 2
MaxCalls == 2

ProductIds == {1, 2}
Phones == {"0771234567", "0770000000"}
Workers == {"t1", "t2"}

None == "None"
Truthy(s) == s # None /\ s # ""

\* catalog prices in cents
Price0 == [p \in ProductIds |-> IF p = 1 THEN 9999 ELSE 4599]

\* OrderItemSchema.quantity is any int: a negative one and two positive ones
Quantities == {-1, 1, 2}
Lines == [product_id : ProductIds, quantity : Quantities]
\* item lists: every single line, and two-line lists that start with one unit of
\* product 1 (the second line names the same or the other product)
ItemLists ==
    {<<l>> : l \in Lines}
    \cup {<<[product_id |-> 1, quantity |-> 1], l>> : l \in {x \in Lines : x.quantity >= 1}}

Customers ==
    { [user_phone |-> "0771234567", user_name |-> "Jane", user_email |-> None,
       shipping_address |-> "12 Main St", payment_method |-> "Debit Card"],
      [user_phone |-> "0770000000", user_name |-> "Ann", user_email |-> "ann@x.io",
       shipping_address |-> "", payment_method |-> "Cash on Delivery"] }

PlaceOrderRequests ==
    { [user_phone |-> c.user_phone, user_name |-> c.user_name,
       user_email |-> c.user_email, shipping_address |-> c.shipping_address,
       payment_method |-> c.payment_method, items |-> it]
      : c \in Customers, it \in ItemLists }

----------------------------------------------------------------------------
(* Rows *)

NoUser == [exists |-> FALSE, name |-> None, email |-> None, address |-> None]

Idle == [op |-> "none"]

RECURSIVE SumSeq(_)
SumSeq(s) == IF s = <<>> THEN 0 ELSE Head(s) + SumSeq(Tail(s))

\* sum of quantity * unitPrice over a list of lines carrying both
RECURSIVE LineTotal(_)
LineTotal(s) ==
    IF s = <<>> THEN 0
    ELSE Head(s).quantity * Head(s).unit_price + LineTotal(Tail(s))

\* quantity a list of lines asks of product p
RECURSIVE QtyOf(_, _)
QtyOf(s, p) ==
    IF s = <<>> THEN 0
    ELSE (IF Head(s).product_id = p THEN Head(s).quantity ELSE 0) + QtyOf(Tail(s), p)

----------------------------------------------------------------------------
\* a user_id that is not a key of session_memory / of conversation_history
\* (its product_id 0 and product_name <<>> stand for None)
NoSession == [present |-> FALSE, product_id |-> 0, product_name |-> <<>>]
NoHistory == [present |-> FALSE, entries |-> <<>>]

\* no Message row, and the AIAgent singleton as __init__ leaves it
InitChat ==
    /\ messages = <<>>
    /\ session_memory = [u \in Phones |-> NoSession]
    /\ conversation_history = [u \in Phones |-> NoHistory]

----------------------------------------------------------------------------
Init ==
    /\ products \in [ProductIds -> [exists : {TRUE}, isActive : BOOLEAN,
                                    price : {Price0[1], Price0[2]},
                                    stockQuantity : 0 .. MaxStock]]
    /\ \A p \in ProductIds : products[p].price = Price0[p]
    /\ products[1].isActive
    /\ products[2].stockQuantity = 1
    /\ users = [ph \in Phones |-> NoUser]
    /\ orders = <<>>
    /\ orderItems = <<>>
    /\ carts = <<>>
    /\ cartItems = <<>>
    /\ bank_details = "ACC 001-2345"
    /\ clock = 1
    /\ pc = [w \in Workers |-> "idle"]
    /\ loc = [w \in Workers |-> Idle]
    /\ res = [w \in Workers |-> Idle]
    /\ calls = 0
    /\ stock0 = [p \in ProductIds |-> products[p].stockQuantity]
    /\ sold = [p \in ProductIds |-> 0]
    /\ sent = <<>>
    /\ InitChat

----------------------------------------------------------------------------
(* The session *)

NotLoaded == [loaded |-> FALSE, price |-> 0, stockQuantity |-> 0]
EmptySession == [p \in ProductIds |-> NotLoaded]
Unset == "<unset>"

\* a flush that behaved like a commit
SessionFlushCommits(committed, pending) == pending

\* db.flush(): the pending rows go to the database inside the open
\* transaction; what other sessions read (the committed table) is unchanged
SessionFlush(committed, pending) == committed

\* the object a Product query returns for a row the WHERE clause matched: an
\* object already in the session's identity map keeps its loaded attributes
LoadProduct(session, pid) ==
    IF session[pid].loaded THEN session[pid]
    ELSE [loaded |-> TRUE, price |-> products[pid].price,
          stockQuantity |-> products[pid].stockQuantity]

\* the response leaves the handler; db.rollback() has dropped the pending rows
Respond(w, r) ==
    /\ pc' = [pc EXCEPT ![w] = "idle"]
    /\ loc' = [loc EXCEPT ![w] = Idle]
    /\ res' = [res EXCEPT ![w] = r]

PlaceFailure(w, code) ==
    /\ Respond(w, [op |-> "place_order", items |-> loc[w].req.items, status |-> code])
    /\ UNCHANGED <<products, users, orders, orderItems, sold, clock>>

----------------------------------------------------------------------------
(* POST /orders/place *)

valid_methods == {"Debit Card", "Cash on Delivery"}

\* a validator that accepts every payment method
validate_payment_method_any(v) == TRUE

\* the validators of PlaceOrderRequest: TRUE when the value passes
validate_payment_method(v) == v \in valid_methods
validate_items(v) == v # <<>>

\* the fields of a request whose validator raises; the 422 response of the
\* framework names each of them
ValidationErrors(r) ==
    (IF validate_payment_method(r.payment_method) THEN {} ELSE {"payment_method"})
    \cup (IF validate_items(r.items) THEN {} ELSE {"items"})

\* the request is validated against PlaceOrderRequest before the handler runs
PlaceStart(w, r) ==
    /\ pc[w] = "idle"
    /\ calls < MaxCalls
    /\ calls' = calls + 1
    /\ IF ValidationErrors(r) # {}
       THEN Respond(w, [op |-> "place_order", items |-> r.items, status |-> 422,
                        detail |-> ValidationErrors(r)])
       ELSE /\ pc' = [pc EXCEPT ![w] = "place_validate"]
            /\ loc' = [loc EXCEPT ![w] =
                         [op |-> "place_order", req |-> r, i |-> 1,
                          session |-> EmptySession,
                          items_to_process |-> <<>>, total_amount |-> 0]]
            /\ res' = [res EXCEPT ![w] = Idle]
    /\ UNCHANGED <<products, users, orders, orderItems, cartvars, clock, stock0, chatvars,
                   sold, sent>>

\* one pass of the validation loop
PlaceValidate(w) ==
    /\ pc[w] = "place_validate"
    /\ LET l == loc[w]
           item == l.req.items[l.i]
           pid == item.product_id
           found == products[pid].exists /\ products[pid].isActive
           product == LoadProduct(l.session, pid)
       IN  IF ~found THEN PlaceFailure(w, 404)
           ELSE IF product.stockQuantity < item.quantity THEN PlaceFailure(w, 400)
           ELSE /\ loc' = [loc EXCEPT ![w] =
                     [l EXCEPT !.i = l.i + 1,
                               !.session = [l.session EXCEPT ![pid] = product],
                               !.items_to_process = Append(l.items_to_process,
                                    [product_id |-> pid, quantity |-> item.quantity,
                                     unit_price |-> product.price]),
                               !.total_amount = l.total_amount
                                                + product.price * item.quantity]]
                /\ pc' = [pc EXCEPT ![w] = IF l.i = Len(l.req.items)
                                          THEN "place_user" ELSE "place_validate"]
                /\ UNCHANGED <<products, users, orders, orderItems, res, sold, clock>>
    /\ UNCHANGED <<cartvars, calls, stock0, chatvars, sent>>

\* the new value of a profile field, or Unset when the attribute is not written
Changed(old, new) == IF new = old THEN Unset ELSE new

\* find or create the user, build the Order, flush both
PlaceFindUser(w) ==
    /\ pc[w] = "place_user"
    /\ LET l == loc[w]
           r == l.req
           user == users[r.user_phone]
           new_user == [exists |-> TRUE, name |-> r.user_name, email |-> r.user_email,
                        address |-> r.shipping_address]
           updates ==
               [name |-> IF Truthy(r.user_name)
                         THEN Changed(user.name, r.user_name) ELSE Unset,
                address |-> IF Truthy(r.shipping_address)
                            THEN Changed(user.address, r.shipping_address) ELSE Unset,
                email |-> IF Truthy(r.user_email) /\ ~Truthy(user.email)
                          THEN Changed(user.email, r.user_email) ELSE Unset]
           new_order == [userId |-> r.user_phone, status |-> "PENDING",
                         totalAmount |-> l.total_amount,
                         customerName |-> r.user_name, customerEmail |-> r.user_email,
                         customerPhone |-> r.user_phone,
                         shippingAddress |-> r.shipping_address,
                         paymentMethod |-> r.payment_method,
                         paymentRef |-> None, paymentReceiptUrl |-> None,
                         createdAt |-> clock]
       IN  /\ users' = IF user.exists THEN users
                       ELSE SessionFlush(users, [users EXCEPT ![r.user_phone] = new_user])
           /\ orders' = SessionFlush(orders, Append(orders, new_order))
           /\ loc' = [loc EXCEPT ![w] =
                        [op |-> "place_order", req |-> r, session |-> l.session,
                         items_to_process |-> l.items_to_process,
                         total_amount |-> l.total_amount,
                         insert_user |-> ~user.exists, new_user |-> new_user,
                         updates |-> updates, new_order |-> new_order]]
    /\ pc' = [pc EXCEPT ![w] = "place_commit"]
    /\ clock' = clock + 1
    /\ UNCHANGED <<products, orderItems, cartvars, res, calls, stock0, chatvars, sold, sent>>

\* the loop of lines 105-119 on the session's Product objects
RECURSIVE ReduceInventory(_, _)
ReduceInventory(session, items) ==
    IF items = <<>> THEN session
    ELSE LET it == Head(items)
         IN  ReduceInventory(
                 [session EXCEPT ![it.product_id].stockQuantity = @ - it.quantity],
                 Tail(items))

\* the OrderItem rows of a list of processed lines
NewOrderItems(order_id, items) ==
    [k \in 1 .. Len(items) |->
        [orderId |-> order_id, productId |-> items[k].product_id,
         quantity |-> items[k].quantity, unitPrice |-> items[k].unit_price]]

ApplyUserUpdates(row, updates) ==
    [exists |-> TRUE,
     name |-> IF updates.name = Unset THEN row.name ELSE updates.name,
     email |-> IF updates.email = Unset THEN row.email ELSE updates.email,
     address |-> IF updates.address = Unset THEN row.address ELSE updates.address]

\* db.commit(): the unit of work is written and becomes visible, or it fails
\* (storage failure, unique phoneNumber taken meanwhile, a Product row gone) and
\* the except branches roll back
PlaceCommit(w) ==
    /\ pc[w] = "place_commit"
    /\ LET l == loc[w]
           r == l.req
           after == ReduceInventory(l.session, l.items_to_process)
           dirty == {p \in ProductIds : after[p].loaded
                        /\ after[p].stockQuantity # l.session[p].stockQuantity}
           ordered == {l.items_to_process[k].product_id :
                          k \in 1 .. Len(l.items_to_process)}
           conflict == \/ l.insert_user /\ users[r.user_phone].exists
                       \/ \E p \in ordered : ~products[p].exists
       IN  \/ PlaceFailure(w, 500)
           \/ /\ ~conflict
              /\ users' = [users EXCEPT ![r.user_phone] =
                              IF l.insert_user THEN l.new_user
                              ELSE ApplyUserUpdates(@, l.updates)]
              /\ orders' = Append(orders, l.new_order)
              /\ orderItems' = orderItems
                               \o NewOrderItems(Len(orders) + 1, l.items_to_process)
              /\ products' = [p \in ProductIds |->
                                 IF p \in dirty
                                 THEN [products[p] EXCEPT
                                          !.stockQuantity = after[p].stockQuantity]
                                 ELSE products[p]]
              /\ sold' = [p \in ProductIds |-> sold[p] + QtyOf(l.items_to_process, p)]
              /\ Respond(w, [op |-> "place_order", items |-> r.items, status |-> 200])
              /\ UNCHANGED clock
    /\ UNCHANGED <<cartvars, calls, stock0, chatvars, sent>>

----------------------------------------------------------------------------
(* POST /orders/initiate: three commits *)

DraftItemLists ==
    { <<[product_id |-> 1, quantity |-> 1]>>,
      <<[product_id |-> 2, quantity |-> 2], [product_id |-> 1, quantity |-> 1]>> }

DraftRequests ==
    { [user_phone |-> c.user_phone, user_name |-> c.user_name,
       user_email |-> c.user_email, shipping_address |-> c.shipping_address,
       payment_method |-> c.payment_method, items |-> it]
      : c \in Customers, it \in DraftItemLists }

\* the profile after lines 170-175 ran on an existing user
UpdatedProfile(user, r) ==
    [exists |-> TRUE,
     name |-> IF Truthy(r.user_name) THEN r.user_name ELSE user.name,
     address |-> IF Truthy(r.shipping_address) THEN r.shipping_address ELSE user.address,
     email |-> IF Truthy(r.user_email) /\ ~Truthy(user.email)
               THEN r.user_email ELSE user.email]

\* 1. find or create the user, commit
DraftStart(w, r) ==
    /\ pc[w] = "idle"
    /\ calls < MaxCalls
    /\ calls' = calls + 1
    /\ LET user == users[r.user_phone]
       IN  users' = [users EXCEPT ![r.user_phone] =
                        IF user.exists THEN UpdatedProfile(user, r)
                        ELSE [exists |-> TRUE, name |-> r.user_name,
                              email |-> r.user_email, address |-> r.shipping_address]]
    /\ pc' = [pc EXCEPT ![w] = "draft_order"]
    /\ loc' = [loc EXCEPT ![w] = [op |-> "create_draft_order", req |-> r]]
    /\ res' = [res EXCEPT ![w] = Idle]
    /\ UNCHANGED <<products, orders, orderItems, cartvars, clock, stock0, chatvars, sold, sent>>

\* 2. the Order row with totalAmount 0, commit
DraftOrder(w) ==
    /\ pc[w] = "draft_order"
    /\ LET r == loc[w].req
       IN  /\ orders' = Append(orders,
                 [userId |-> r.user_phone, status |-> "PENDING", totalAmount |-> 0,
                  customerName |-> r.user_name, customerEmail |-> r.user_email,
                  customerPhone |-> r.user_phone,
                  shippingAddress |-> r.shipping_address,
                  paymentMethod |-> r.payment_method,
                  paymentRef |-> None, paymentReceiptUrl |-> None,
                  createdAt |-> clock])
           /\ loc' = [loc EXCEPT ![w] =
                        [op |-> "create_draft_order", req |-> r,
                         order_id |-> Len(orders) + 1]]
    /\ clock' = clock + 1
    /\ pc' = [pc EXCEPT ![w] = "draft_items"]
    /\ UNCHANGED <<products, users, orderItems, cartvars, res, calls, stock0, chatvars, sold, sent>>

\* the lines whose product id resolves (no isActive filter, line 198), priced
RECURSIVE DraftLines(_)
DraftLines(items) ==
    IF items = <<>> THEN <<>>
    ELSE LET it == Head(items)
         IN  (IF products[it.product_id].exists
              THEN <<[product_id |-> it.product_id, quantity |-> it.quantity,
                      unit_price |-> products[it.product_id].price]>>
              ELSE <<>>) \o DraftLines(Tail(items))

\* 3./4. the OrderItems and the total, commit
DraftItems(w) ==
    /\ pc[w] = "draft_items"
    /\ LET l == loc[w]
           lines == DraftLines(l.req.items)
       IN  /\ orderItems' = orderItems \o NewOrderItems(l.order_id, lines)
           /\ orders' = [orders EXCEPT ![l.order_id].totalAmount = LineTotal(lines)]
           /\ Respond(w, [op |-> "create_draft_order", status |-> "created",
                          order_id |-> l.order_id])
    /\ UNCHANGED <<products, users, cartvars, clock, calls, stock0, chatvars, sold, sent>>

----------------------------------------------------------------------------
(* PUT /admin/orders/{order_id}/status *)

valid_statuses ==
    {"PENDING", "PAYMENT_REVIEW_REQUESTED", "PAID", "SHIPPED", "COMPLETED", "CANCELLED"}

\* str.upper() on the status strings that are sent
Upper(s) == IF s = "paid" THEN "PAID" ELSE s

StatusInputs == valid_statuses \cup {"paid", "REFUNDED"}

\* an id of an Order row, or the next one, which no row has yet
OrderIdInputs == 1 .. (Len(orders) + 1)

\* send_reply is a coroutine function (async def): a call of it builds a
\* coroutine object and runs none of its body; the body runs when the object
\* is awaited
send_reply(to_number, order_id, awaited) ==
    [to |-> to_number, order_id |-> order_id, ran |-> awaited]

\* an update that assigns the status before it checks the name
update_order_status_unchecked(w, order_id, status) ==
    /\ pc[w] = "idle"
    /\ calls < MaxCalls
    /\ calls' = calls + 1
    /\ LET new_status == Upper(status)
           r(code) == [op |-> "update_order_status", order_id |-> order_id,
                       status |-> status, code |-> code, notify |-> "none"]
       IN  IF order_id \notin 1 .. Len(orders)
           THEN Respond(w, r(404)) /\ UNCHANGED orders
           ELSE /\ orders' = [orders EXCEPT ![order_id].status = new_status]
                /\ Respond(w, r(IF new_status \in valid_statuses THEN 200 ELSE 400))
    /\ UNCHANGED <<products, users, orderItems, cartvars, clock, stock0, chatvars, sold, sent>>

\* lines 82-98: look the order up, check the status name, assign, commit
update_order_status(w, order_id, status) ==
    /\ pc[w] = "idle"
    /\ calls < MaxCalls
    /\ calls' = calls + 1
    /\ LET new_status == Upper(status)
           r(code) == [op |-> "update_order_status", order_id |-> order_id,
                       status |-> status, code |-> code, notify |-> "none"]
       IN  IF order_id \notin 1 .. Len(orders)
           THEN Respond(w, r(404)) /\ UNCHANGED orders
           ELSE IF new_status \notin valid_statuses
           THEN Respond(w, r(400)) /\ UNCHANGED orders
           ELSE /\ orders' = [orders EXCEPT ![order_id].status = new_status]
                /\ IF new_status = "PAID"
                      /\ orders[order_id].status = "PAYMENT_REVIEW_REQUESTED"
                   THEN /\ pc' = [pc EXCEPT ![w] = "status_notify"]
                        /\ loc' = [loc EXCEPT ![w] =
                                     [op |-> "update_order_status",
                                      order_id |-> order_id, status |-> status]]
                        /\ res' = [res EXCEPT ![w] = Idle]
                   ELSE Respond(w, r(200))
    /\ UNCHANGED <<products, users, orderItems, cartvars, clock, stock0, chatvars, sold, sent>>

\* a notification block whose failure puts the old status back and fails the call
StatusNotifyReverts(w) ==
    /\ pc[w] = "status_notify"
    /\ \/ /\ sent' = Append(sent, send_reply(orders[loc[w].order_id].customerPhone,
                                              loc[w].order_id, FALSE))
          /\ UNCHANGED orders
          /\ Respond(w, [op |-> "update_order_status",
                         order_id |-> loc[w].order_id, status |-> loc[w].status,
                         code |-> 200, notify |-> "called"])
       \/ /\ UNCHANGED sent
          /\ orders' = [orders EXCEPT
                           ![loc[w].order_id].status = "PAYMENT_REVIEW_REQUESTED"]
          /\ Respond(w, [op |-> "update_order_status",
                         order_id |-> loc[w].order_id, status |-> loc[w].status,
                         code |-> 500, notify |-> "raised"])
    /\ UNCHANGED <<products, users, orderItems, cartvars, clock, calls, stock0, chatvars, sold>>

\* lines 101-122: the try block around the notification, then the success
\* result.  The handler is a plain def, so send_reply(...) is called and not
\* awaited.  An exception in the block (the import, the reload of the order
\* after the commit) is caught and printed.
StatusNotify(w) ==
    /\ pc[w] = "status_notify"
    /\ LET order == orders[loc[w].order_id]
           customer_phone == order.customerPhone
       IN  \/ /\ sent' = IF Truthy(customer_phone)
                          THEN Append(sent, send_reply(customer_phone,
                                                       loc[w].order_id, FALSE))
                          ELSE sent
              /\ Respond(w, [op |-> "update_order_status",
                             order_id |-> loc[w].order_id, status |-> loc[w].status,
                             code |-> 200, notify |-> "called"])
           \/ /\ UNCHANGED sent
              /\ Respond(w, [op |-> "update_order_status",
                             order_id |-> loc[w].order_id, status |-> loc[w].status,
                             code |-> 200, notify |-> "raised"])
    /\ UNCHANGED <<dbvars, clock, calls, stock0, chatvars, sold>>

----------------------------------------------------------------------------
(* POST /orders/{order_id}/payment-receipt *)

allowed_types == {"image/jpeg", "image/jpg", "image/png", "image/gif", "image/webp"}
ContentTypes == {"image/png", "application/pdf"}
ReceiptUrl == "https://lh3.googleusercontent.com/d/f1"

\* an upload that keeps the status of an order that is COMPLETED or CANCELLED
upload_payment_receipt_guarded(w, order_id, content_type, uploaded) ==
    /\ pc[w] = "idle"
    /\ calls < MaxCalls
    /\ calls' = calls + 1
    /\ LET r(code) == [op |-> "upload_payment_receipt", order_id |-> order_id,
                       content_type |-> content_type, code |-> code]
       IN  IF order_id \notin 1 .. Len(orders)
           THEN Respond(w, r(404)) /\ UNCHANGED orders
           ELSE IF content_type \notin allowed_types
           THEN Respond(w, r(400)) /\ UNCHANGED orders
           ELSE IF ~uploaded
           THEN Respond(w, r(500)) /\ UNCHANGED orders
           ELSE /\ orders' = [orders EXCEPT
                                ![order_id].paymentReceiptUrl = ReceiptUrl,
                                ![order_id].status =
                                    IF @ \in {"COMPLETED", "CANCELLED"} THEN @
                                    ELSE "PAYMENT_REVIEW_REQUESTED"]
                /\ Respond(w, r(200))
    /\ UNCHANGED <<products, users, orderItems, cartvars, clock, stock0, chatvars, sold, sent>>

\* uploaded: whether upload_to_drive returned a URL (it raises otherwise)
upload_payment_receipt(w, order_id, content_type, uploaded) ==
    /\ pc[w] = "idle"
    /\ calls < MaxCalls
    /\ calls' = calls + 1
    /\ LET r(code) == [op |-> "upload_payment_receipt", order_id |-> order_id,
                       content_type |-> content_type, code |-> code]
       IN  IF order_id \notin 1 .. Len(orders)
           THEN Respond(w, r(404)) /\ UNCHANGED orders
           ELSE IF content_type \notin allowed_types
           THEN Respond(w, r(400)) /\ UNCHANGED orders
           ELSE IF ~uploaded
           THEN Respond(w, r(500)) /\ UNCHANGED orders
           ELSE \/ /\ orders' = [orders EXCEPT
                                   ![order_id].paymentReceiptUrl = ReceiptUrl,
                                   ![order_id].status = "PAYMENT_REVIEW_REQUESTED"]
                   /\ Respond(w, r(200))
                \* db.commit() fails: rollback, 500
                \/ Respond(w, r(500)) /\ UNCHANGED orders
    /\ UNCHANGED <<products, users, orderItems, cartvars, clock, stock0, chatvars, sold, sent>>

----------------------------------------------------------------------------
(* PUT /products/{product_id}, DELETE /products/{product_id} *)

\* ProductUpdate bodies: the fields that are set, and their values
ProductUpdates ==
    { [fields |-> {"price"}, price |-> 10999, stockQuantity |-> 0, isActive |-> TRUE],
      [fields |-> {"stockQuantity"}, price |-> 0, stockQuantity |-> MaxStock,
       isActive |-> TRUE],
      [fields |-> {"isActive"}, price |-> 0, stockQuantity |-> 0, isActive |-> FALSE],
      [fields |-> {"price", "isActive"}, price |-> 4599, stockQuantity |-> 0,
       isActive |-> TRUE] }

\* an update that also reprices the order lines of the product
update_product_reprices(product_id, product) ==
    /\ calls < MaxCalls
    /\ calls' = calls + 1
    /\ products[product_id].exists
    /\ "price" \in product.fields
    /\ products' = [products EXCEPT ![product_id].price = product.price]
    /\ orderItems' = [k \in 1 .. Len(orderItems) |->
                        IF orderItems[k].productId = product_id
                        THEN [orderItems[k] EXCEPT !.unitPrice = product.price]
                        ELSE orderItems[k]]
    /\ UNCHANGED <<users, orders, cartvars, clock, pc, loc, res, stock0, chatvars, sold, sent>>

update_product(product_id, product) ==
    /\ calls < MaxCalls
    /\ calls' = calls + 1
    /\ IF ~products[product_id].exists THEN UNCHANGED products
       ELSE products' = [products EXCEPT ![product_id] =
               [exists |-> TRUE,
                isActive |-> IF "isActive" \in product.fields
                             THEN product.isActive ELSE @.isActive,
                price |-> IF "price" \in product.fields THEN product.price ELSE @.price,
                stockQuantity |-> IF "stockQuantity" \in product.fields
                                  THEN product.stockQuantity ELSE @.stockQuantity]]
    /\ UNCHANGED <<users, orders, orderItems, cartvars, clock, pc, loc, res,
                   stock0, chatvars, sold, sent>>

\* an OrderItem row of the product exists
DependenciesOf(product_id) ==
    \E k \in 1 .. Len(orderItems) : orderItems[k].productId = product_id

DeleteRespond(w, product_id, code) ==
    Respond(w, [op |-> "delete_product", product_id |-> product_id, code |-> code])

\* the two queries: the product, then an OrderItem of it
delete_product(w, product_id) ==
    /\ pc[w] = "idle"
    /\ calls < MaxCalls
    /\ calls' = calls + 1
    /\ IF ~products[product_id].exists THEN DeleteRespond(w, product_id, 404)
       ELSE IF DependenciesOf(product_id) THEN DeleteRespond(w, product_id, 400)
       ELSE /\ pc' = [pc EXCEPT ![w] = "delete_commit"]
            /\ loc' = [loc EXCEPT ![w] = [op |-> "delete_product",
                                          product_id |-> product_id]]
            /\ UNCHANGED res
    /\ UNCHANGED <<dbvars, clock, stock0, chatvars, sold, sent>>

\* db.delete(db_product); db.commit(): DELETE FROM Product WHERE id = ?.  No
\* relationship leads from Product to OrderItem, so no OrderItem row is
\* touched.  The commit may raise (a storage failure, or the foreign key of
\* OrderItem.productId where the database enforces it: PostgreSQL does,
\* SQLite as the engine is configured does not); the except branch rolls
\* back and answers 500.
DeleteCommit(w) ==
    /\ pc[w] = "delete_commit"
    /\ \/ /\ products' = [products EXCEPT ![loc[w].product_id].exists = FALSE]
          /\ DeleteRespond(w, loc[w].product_id, 200)
       \/ UNCHANGED products /\ DeleteRespond(w, loc[w].product_id, 500)
    /\ UNCHANGED <<users, orders, orderItems, cartvars, clock, calls,
                   stock0, chatvars, sold, sent>>

----------------------------------------------------------------------------
(* confirm_user_payment tool *)

TransactionRefs == {None, "TXN-778"}

\* a filter on the phone alone
OrdersOfPhone(phone) ==
    {k \in 1 .. Len(orders) : orders[k].customerPhone = phone}

\* ids of an identity's PENDING orders
PendingOf(phone) ==
    {k \in 1 .. Len(orders) :
        orders[k].customerPhone = phone /\ orders[k].status = "PENDING"}

\* the ascending order
EarliestOf(ids) ==
    CHOOSE k \in ids : \A j \in ids :
        \/ orders[j].createdAt > orders[k].createdAt
        \/ orders[j].createdAt = orders[k].createdAt /\ j >= k

\* .order_by(Order.createdAt.desc()).first()
LatestOf(ids) ==
    CHOOSE k \in ids : \A j \in ids :
        \/ orders[j].createdAt < orders[k].createdAt
        \/ orders[j].createdAt = orders[k].createdAt /\ j <= k

ConfirmRespond(w, customer_phone, transaction_ref, text, id) ==
    Respond(w, [op |-> "confirm_user_payment", phone |-> customer_phone,
                ref |-> transaction_ref, text |-> text, order_id |-> id])

\* the query for the latest PENDING order of the phone; the row it finds is
\* kept in the session
confirm_user_payment(w, customer_phone, transaction_ref) ==
    /\ pc[w] = "idle"
    /\ calls < MaxCalls
    /\ calls' = calls + 1
    /\ LET pending == PendingOf(customer_phone)
       IN  IF pending = {}
           THEN ConfirmRespond(w, customer_phone, transaction_ref,
                               "no pending order", 0)
           ELSE /\ pc' = [pc EXCEPT ![w] = "confirm_commit"]
                /\ loc' = [loc EXCEPT ![w] =
                       [op |-> "confirm_user_payment", phone |-> customer_phone,
                        ref |-> transaction_ref, order_id |-> LatestOf(pending),
                        paymentRef |-> orders[LatestOf(pending)].paymentRef]]
                /\ UNCHANGED res
    /\ UNCHANGED <<dbvars, clock, stock0, chatvars, sold, sent>>

\* the columns the commit's UPDATE sets on the row of the order
ConfirmWrite(w, status) ==
    [orders EXCEPT
        ![loc[w].order_id].status = status,
        ![loc[w].order_id].paymentRef =
            IF Truthy(loc[w].ref) /\ loc[w].ref # loc[w].paymentRef
            THEN loc[w].ref ELSE @]

\* a confirmation that marks the order PAID
ConfirmCommitPays(w) ==
    /\ pc[w] = "confirm_commit"
    /\ orders' = ConfirmWrite(w, "PAID")
    /\ ConfirmRespond(w, loc[w].phone, loc[w].ref, "thank you", loc[w].order_id)
    /\ UNCHANGED <<products, users, orderItems, cartvars, clock, calls,
                   stock0, chatvars, sold, sent>>

\* order.status = ...; order.paymentRef = ...; db.commit(): an UPDATE of the
\* changed columns of the row loaded by the query, whatever the row holds now
ConfirmCommit(w) ==
    /\ pc[w] = "confirm_commit"
    /\ \/ /\ orders' = ConfirmWrite(w, "PAYMENT_REVIEW_REQUESTED")
          /\ ConfirmRespond(w, loc[w].phone, loc[w].ref, "thank you", loc[w].order_id)
       \* db.commit() raises: the except branch answers
       \/ /\ ConfirmRespond(w, loc[w].phone, loc[w].ref, "error", loc[w].order_id)
          /\ UNCHANGED orders
    /\ UNCHANGED <<products, users, orderItems, cartvars, clock, calls,
                   stock0, chatvars, sold, sent>>

----------------------------------------------------------------------------
(* Cart tools: add_to_cart, view_cart, generate_invoice, get_payment_details *)

\* texts are sequences of characters
ProductName ==
    [p \in ProductIds |->
        IF p = 1 THEN <<"H", "e", "a", "d", "p", "h", "o", "n", "e", "s">>
        ELSE <<"M", "o", "u", "s", "e">>]

LowerChar(c) ==
    IF c = "H" THEN "h" ELSE IF c = "M" THEN "m" ELSE IF c = "C" THEN "c" ELSE c
Lower(t) == [k \in 1 .. Len(t) |-> LowerChar(t[k])]

\* Python's `a in b` on strings
IsIn(a, b) ==
    \E k \in 0 .. (Len(b) - Len(a)) : SubSeq(b, k + 1, k + Len(a)) = a

\* parsed entries of an items string: the quantity and the product name guess
CartInputs ==
    { <<[qty |-> 2, name |-> <<"H", "e", "a", "d", "p", "h", "o", "n", "e", "s">>],
        [qty |-> 1, name |-> <<"m", "o", "u", "s", "e">>]>>,
      <<[qty |-> 1, name |-> <<"M", "o", "u", "s", "e", " ", "p", "a", "d">>]>>,
      <<[qty |-> 1, name |-> <<"l", "a", "m", "p">>]>> }

\* db.query(Cart).filter(Cart.user_phone == phone).first(): 0 when there is none
CartOf(phone) ==
    LET ids == {k \in 1 .. Len(carts) : carts[k].exists /\ carts[k].user_phone = phone}
    IN  IF ids = {} THEN 0 ELSE CHOOSE k \in ids : \A j \in ids : k <= j

\* cart.items: the ids of the cart's CartItem rows, in id order
RECURSIVE ItemsOf(_, _)
ItemsOf(cart_id, k) ==
    IF k > Len(cartItems) THEN <<>>
    ELSE (IF cartItems[k].exists /\ cartItems[k].cart_id = cart_id THEN <<k>> ELSE <<>>)
         \o ItemsOf(cart_id, k + 1)

\* the first product of all_products whose name contains the guess or is
\* contained in it, ignoring case; 0 when none matches
MatchProduct(all_products, guess) ==
    LET hits == {p \in all_products :
                    \/ IsIn(Lower(ProductName[p]), Lower(guess))
                    \/ IsIn(Lower(guess), Lower(ProductName[p]))}
    IN  IF hits = {} THEN 0 ELSE CHOOSE p \in hits : \A q \in hits : p <= q

\* a query that finds no row
FindNoCartItem(cart_id, product_id) == 0

\* the committed CartItem a query finds for (cart, product): 0 when none.
\* autoflush is off, so rows added earlier in the same loop are not found.
FindCartItem(cart_id, product_id) ==
    LET ids == {k \in 1 .. Len(cartItems) :
                   /\ cartItems[k].exists
                   /\ cartItems[k].cart_id = cart_id
                   /\ cartItems[k].product_id = product_id}
    IN  IF ids = {} THEN 0 ELSE CHOOSE k \in ids : \A j \in ids : k <= j

\* the loop of lines 39-66 over the entries: st holds the quantities of the
\* loaded CartItem objects, the rows added to the session and the summary
RECURSIVE CartLoop(_, _, _, _)
CartLoop(entries, cart_id, all_products, st) ==
    IF entries = <<>> THEN st
    ELSE LET e == Head(entries)
             matched == MatchProduct(all_products, e.name)
             found == IF matched = 0 THEN 0 ELSE FindCartItem(cart_id, matched)
             next ==
               IF matched = 0 THEN st
               ELSE IF found # 0
               THEN [st EXCEPT
                       !.loaded = @ \cup {found},
                       !.quantity = [@ EXCEPT ![found] = @ + e.qty],
                       !.summary = Append(@, [qty |-> e.qty, product_id |-> matched])]
               ELSE [st EXCEPT
                       !.added = Append(@, [exists |-> TRUE, cart_id |-> cart_id,
                                            product_id |-> matched, quantity |-> e.qty]),
                       !.summary = Append(@, [qty |-> e.qty, product_id |-> matched])]
         IN  CartLoop(Tail(entries), cart_id, all_products, next)

\* a query of all_products without the isActive filter
AddStartAnyProduct(w, items, customer_phone) ==
    /\ pc[w] = "idle"
    /\ calls < MaxCalls
    /\ calls' = calls + 1
    /\ LET all_products == {p \in ProductIds : products[p].exists}
           cart == CartOf(customer_phone)
       IN  /\ loc' = [loc EXCEPT ![w] =
                        [op |-> "add_to_cart", items |-> items,
                         customer_phone |-> customer_phone,
                         all_products |-> all_products,
                         cart_id |-> cart]]
           /\ pc' = [pc EXCEPT ![w] = IF cart = 0 THEN "cart_create" ELSE "cart_loop"]
    /\ res' = [res EXCEPT ![w] = Idle]
    /\ UNCHANGED <<products, users, orders, orderItems, cartvars, clock,
                   stock0, chatvars, sold, sent>>

\* all_products, then the query for the customer's Cart
AddStart(w, items, customer_phone) ==
    /\ pc[w] = "idle"
    /\ calls < MaxCalls
    /\ calls' = calls + 1
    /\ LET all_products == {p \in ProductIds : products[p].exists /\ products[p].isActive}
           cart == CartOf(customer_phone)
       IN  /\ loc' = [loc EXCEPT ![w] =
                        [op |-> "add_to_cart", items |-> items,
                         customer_phone |-> customer_phone,
                         all_products |-> all_products,
                         cart_id |-> cart]]
           /\ pc' = [pc EXCEPT ![w] = IF cart = 0 THEN "cart_create" ELSE "cart_loop"]
    /\ res' = [res EXCEPT ![w] = Idle]
    /\ UNCHANGED <<products, users, orders, orderItems, cartvars, clock,
                   stock0, chatvars, sold, sent>>

\* the storage accepts any number of Cart rows for one identity
CartKeyFree(user_phone) == FALSE

\* the Cart table is keyed by the customer identity: a committed Cart row of
\* the identity makes the storage refuse another one
CartKeyTaken(user_phone) ==
    \E k \in 1 .. Len(carts) : carts[k].exists /\ carts[k].user_phone = user_phone

\* no cart was found: a new Cart is added and committed at once; when the
\* storage refuses the row the tool answers with its error text
AddCreate(w) ==
    /\ pc[w] = "cart_create"
    /\ LET l == loc[w]
       IN  IF CartKeyTaken(l.customer_phone)
           THEN /\ Respond(w, [op |-> "add_to_cart", phone |-> l.customer_phone,
                               status |-> "error", summary |-> <<>>])
                /\ UNCHANGED carts
           ELSE /\ carts' = Append(carts, [exists |-> TRUE,
                                           user_phone |-> l.customer_phone])
                /\ loc' = [loc EXCEPT ![w].cart_id = Len(carts) + 1]
                /\ pc' = [pc EXCEPT ![w] = "cart_loop"]
                /\ UNCHANGED res
    /\ UNCHANGED <<products, users, orders, orderItems, cartItems, bank_details, clock,
                   calls, stock0, chatvars, sold, sent>>

AddLoop(w) ==
    /\ pc[w] = "cart_loop"
    /\ LET l == loc[w]
           st0 == [loaded |-> {},
                   quantity |-> [k \in 1 .. Len(cartItems) |-> cartItems[k].quantity],
                   added |-> <<>>, summary |-> <<>>]
       IN  loc' = [loc EXCEPT ![w] =
                     [op |-> "add_to_cart", cart_id |-> l.cart_id,
                      customer_phone |-> l.customer_phone, items |-> l.items,
                      st |-> CartLoop(l.items, l.cart_id, l.all_products, st0)]]
    /\ pc' = [pc EXCEPT ![w] = "cart_commit"]
    /\ UNCHANGED <<products, users, orders, orderItems, cartvars, clock, res, calls,
                   stock0, chatvars, sold, sent>>

\* db.commit() of the loop's writes; it fails, and the tool answers with its
\* error text, when the Cart or a loaded CartItem was deleted meanwhile, or
\* when the database refuses the commit
AddCommit(w) ==
    /\ pc[w] = "cart_commit"
    /\ LET l == loc[w]
           st == l.st
           stale == \/ ~carts[l.cart_id].exists /\ st.summary # <<>>
                    \/ \E k \in st.loaded : ~cartItems[k].exists
       IN  \E refused \in BOOLEAN :
           IF stale \/ refused
           THEN /\ Respond(w, [op |-> "add_to_cart", phone |-> l.customer_phone,
                               status |-> "error", summary |-> <<>>])
                /\ UNCHANGED cartItems
           ELSE /\ cartItems' =
                     [k \in 1 .. Len(cartItems) |->
                        IF k \in st.loaded
                        THEN [cartItems[k] EXCEPT !.quantity = st.quantity[k]]
                        ELSE cartItems[k]] \o st.added
                /\ Respond(w, [op |-> "add_to_cart", phone |-> l.customer_phone,
                               status |-> IF st.summary = <<>> THEN "none" ELSE "added",
                               summary |-> st.summary])
    /\ UNCHANGED <<products, users, orders, orderItems, carts, bank_details, clock,
                   calls, stock0, chatvars, sold, sent>>

\* reads only
view_cart(customer_phone) ==
    /\ calls < MaxCalls
    /\ calls' = calls + 1
    /\ UNCHANGED <<products, users, orders, orderItems, cartvars, clock, pc, loc, res,
                   stock0, chatvars, sold, sent>>

\* the loaded CartItem rows of a cart: product and quantity
CartRows(ids) ==
    [k \in 1 .. Len(ids) |->
        [product_id |-> cartItems[ids[k]].product_id,
         quantity |-> cartItems[ids[k]].quantity]]

\* the order lines of the loaded rows: product, quantity and the product's
\* price now
CartLines(rows) ==
    [k \in 1 .. Len(rows) |->
        [product_id |-> rows[k].product_id,
         quantity |-> rows[k].quantity,
         unit_price |-> products[rows[k].product_id].price]]

\* the answer of generate_invoice
InvoiceRespond(w, status, order_id) ==
    Respond(w, [op |-> "generate_invoice", phone |-> loc[w].c.user_phone,
                status |-> status, order_id |-> order_id])

\* 1. fetch the Cart of the customer
InvoiceStart(w, c) ==
    /\ pc[w] = "idle"
    /\ calls < MaxCalls
    /\ calls' = calls + 1
    /\ LET cart == CartOf(c.user_phone)
       IN  IF cart = 0
           THEN Respond(w, [op |-> "generate_invoice", phone |-> c.user_phone,
                            status |-> "empty", order_id |-> 0])
           ELSE /\ pc' = [pc EXCEPT ![w] = "invoice_cart"]
                /\ loc' = [loc EXCEPT ![w] =
                             [op |-> "generate_invoice", c |-> c, cart_id |-> cart]]
                /\ res' = [res EXCEPT ![w] = Idle]
    /\ UNCHANGED <<products, users, orders, orderItems, cartvars, clock,
                   stock0, chatvars, sold, sent>>

\* an invoice made of whatever cart.items holds, also of nothing
InvoiceCartUnchecked(w) ==
    /\ pc[w] = "invoice_cart"
    /\ pc' = [pc EXCEPT ![w] = "invoice_lines"]
    /\ loc' = [loc EXCEPT ![w] =
                 [op |-> "generate_invoice", c |-> loc[w].c,
                  cart_id |-> loc[w].cart_id,
                  items |-> CartRows(ItemsOf(loc[w].cart_id, 1))]]
    /\ UNCHANGED <<products, users, orders, orderItems, cartvars, clock, calls, res,
                   stock0, chatvars, sold, sent>>

\* cart.items, loaded by one query when first read; an empty cart is refused
InvoiceCart(w) ==
    /\ pc[w] = "invoice_cart"
    /\ LET ids == ItemsOf(loc[w].cart_id, 1)
       IN  IF ids = <<>>
           THEN InvoiceRespond(w, "empty", 0)
           ELSE /\ pc' = [pc EXCEPT ![w] = "invoice_lines"]
                /\ loc' = [loc EXCEPT ![w] =
                             [op |-> "generate_invoice", c |-> loc[w].c,
                              cart_id |-> loc[w].cart_id, items |-> CartRows(ids)]]
                /\ UNCHANGED res
    /\ UNCHANGED <<products, users, orders, orderItems, cartvars, clock, calls,
                   stock0, chatvars, sold, sent>>

\* a loop that queries the cart's rows again instead of using the loaded
\* cart.items
InvoiceLinesRequeried(w) ==
    /\ pc[w] = "invoice_lines"
    /\ LET rows == CartRows(ItemsOf(loc[w].cart_id, 1))
           gone == \E k \in 1 .. Len(rows) : ~products[rows[k].product_id].exists
       IN  IF gone
           THEN InvoiceRespond(w, "error", 0)
           ELSE /\ pc' = [pc EXCEPT ![w] = "invoice_order"]
                /\ loc' = [loc EXCEPT ![w] =
                             [op |-> "generate_invoice", c |-> loc[w].c,
                              cart_id |-> loc[w].cart_id, items |-> loc[w].items,
                              order_items |-> CartLines(rows)]]
                /\ UNCHANGED res
    /\ UNCHANGED <<products, users, orders, orderItems, cartvars, clock, calls,
                   stock0, chatvars, sold, sent>>

\* the loop over cart.items: each line's product is loaded for its price; a
\* product that is gone raises, and the tool answers with its error text
InvoiceLines(w) ==
    /\ pc[w] = "invoice_lines"
    /\ LET rows == loc[w].items
           gone == \E k \in 1 .. Len(rows) : ~products[rows[k].product_id].exists
       IN  IF gone
           THEN InvoiceRespond(w, "error", 0)
           ELSE /\ pc' = [pc EXCEPT ![w] = "invoice_order"]
                /\ loc' = [loc EXCEPT ![w] =
                             [op |-> "generate_invoice", c |-> loc[w].c,
                              cart_id |-> loc[w].cart_id, items |-> rows,
                              order_items |-> CartLines(rows)]]
                /\ UNCHANGED res
    /\ UNCHANGED <<products, users, orders, orderItems, cartvars, clock, calls,
                   stock0, chatvars, sold, sent>>

\* 2. the Order (PENDING) with its total, committed on its own
InvoiceOrder(w) ==
    /\ pc[w] = "invoice_order"
    /\ LET c == loc[w].c
       IN  orders' = Append(orders,
                      [userId |-> None, status |-> "PENDING",
                       totalAmount |-> LineTotal(loc[w].order_items),
                       customerName |-> c.user_name, customerEmail |-> "",
                       customerPhone |-> c.user_phone,
                       shippingAddress |-> c.shipping_address,
                       paymentMethod |-> "Bank Transfer",
                       paymentRef |-> None, paymentReceiptUrl |-> None,
                       createdAt |-> clock])
    /\ clock' = clock + 1
    /\ pc' = [pc EXCEPT ![w] = "invoice_items"]
    /\ loc' = [loc EXCEPT ![w] =
                 [op |-> "generate_invoice", c |-> loc[w].c,
                  cart_id |-> loc[w].cart_id, items |-> loc[w].items,
                  order_items |-> loc[w].order_items, order_id |-> Len(orders) + 1]]
    /\ UNCHANGED <<products, users, orderItems, cartvars, res, calls,
                   stock0, chatvars, sold, sent>>

\* 3. the OrderItems, second commit (or a storage failure: the error text)
InvoiceItems(w) ==
    /\ pc[w] = "invoice_items"
    /\ \/ /\ orderItems' = orderItems
                           \o NewOrderItems(loc[w].order_id, loc[w].order_items)
          /\ InvoiceRespond(w, "invoice", loc[w].order_id)
       \/ /\ UNCHANGED orderItems
          /\ InvoiceRespond(w, "error", 0)
    /\ UNCHANGED <<products, users, orders, cartvars, clock, calls, stock0, chatvars, sold, sent>>

\* how a get_payment_details call ends: status is "not_configured" or
\* "details" for the two returned texts, "raised" for an exception that
\* leaves the tool (the try has a finally and no except)
PaymentRespond(w, customer_phone, status) ==
    Respond(w, [op |-> "get_payment_details", phone |-> customer_phone,
                status |-> status])

\* a delete of the Cart row that leaves its CartItems behind
get_payment_details_no_cascade(w, customer_phone) ==
    /\ pc[w] = "idle"
    /\ calls < MaxCalls
    /\ calls' = calls + 1
    /\ LET cart == CartOf(customer_phone)
       IN  IF ~Truthy(bank_details)
           THEN /\ UNCHANGED <<carts, cartItems>>
                /\ PaymentRespond(w, customer_phone, "not_configured")
           ELSE /\ IF cart = 0 THEN UNCHANGED carts
                   ELSE carts' = [carts EXCEPT ![cart].exists = FALSE]
                /\ UNCHANGED cartItems
                /\ PaymentRespond(w, customer_phone, "details")
    /\ UNCHANGED <<products, users, orders, orderItems, bank_details, clock,
                   stock0, chatvars, sold, sent>>

\* the bank details and, when they are configured, the cart cleared (its
\* CartItems go with it by cascade); a query or the commit that raises
\* leaves the tool as an exception, nothing written
get_payment_details(w, customer_phone) ==
    /\ pc[w] = "idle"
    /\ calls < MaxCalls
    /\ calls' = calls + 1
    /\ LET cart == CartOf(customer_phone)
       IN  \/ IF ~Truthy(bank_details)
              THEN /\ UNCHANGED <<carts, cartItems>>
                   /\ PaymentRespond(w, customer_phone, "not_configured")
              ELSE /\ IF cart = 0 THEN UNCHANGED <<carts, cartItems>>
                      ELSE /\ carts' = [carts EXCEPT ![cart].exists = FALSE]
                           /\ cartItems' = [k \in 1 .. Len(cartItems) |->
                                              IF cartItems[k].cart_id = cart
                                              THEN [cartItems[k] EXCEPT !.exists = FALSE]
                                              ELSE cartItems[k]]
                   /\ PaymentRespond(w, customer_phone, "details")
           \/ /\ UNCHANGED <<carts, cartItems>>
              /\ PaymentRespond(w, customer_phone, "raised")
    /\ UNCHANGED <<products, users, orders, orderItems, bank_details, clock,
                   stock0, chatvars, sold, sent>>

----------------------------------------------------------------------------
(* PUT /settings *)

BankDetailsInputs == {"", "ACC 001-2345"}

update_settings(settings_in) ==
    /\ calls < MaxCalls
    /\ calls' = calls + 1
    /\ bank_details' = settings_in
    /\ UNCHANGED <<products, users, orders, orderItems, carts, cartItems, clock, pc, loc,
                   res, stock0, chatvars, sold, sent>>

----------------------------------------------------------------------------
(* Specifications of POST /orders/place alone *)

PlaceSteps(w) ==
    \/ PlaceValidate(w)
    \/ PlaceFindUser(w)
    \/ PlaceCommit(w)

\* concurrent place_order calls with any accepted request
NextPlace ==
    \E w \in Workers :
        \/ \E r \in PlaceOrderRequests : PlaceStart(w, r)
        \/ PlaceSteps(w)

SpecPlace == Init /\ [][NextPlace]_vars

\* concurrent place_order calls, each for one line of a positive quantity
OneLineRequests ==
    {r \in PlaceOrderRequests : Len(r.items) = 1 /\ r.items[1].quantity >= 1}

NextOneLine ==
    \E w \in Workers :
        \/ \E r \in OneLineRequests : PlaceStart(w, r)
        \/ PlaceSteps(w)

SpecOneLine == Init /\ [][NextOneLine]_vars

\* place_order calls one after the other: a call starts only when no other runs
NextSeq ==
    \E w \in Workers :
        \/ /\ \A v \in Workers : pc[v] = "idle"
           /\ \E r \in PlaceOrderRequests : PlaceStart(w, r)
        \/ PlaceSteps(w)

SpecSeq == Init /\ [][NextSeq]_vars

----------------------------------------------------------------------------
(* The order ledger on a database that already holds two orders *)

\* an Order as generate_invoice commits it (one Mouse), in a later status
LedgerOrder(phone, status, at) ==
    [userId |-> None, status |-> status, totalAmount |-> Price0[2],
     customerName |-> "Jane", customerEmail |-> "", customerPhone |-> phone,
     shippingAddress |-> "12 Main St", paymentMethod |-> "Bank Transfer",
     paymentRef |-> None, paymentReceiptUrl |-> None, createdAt |-> at]

InitLedger ==
    /\ products = [p \in ProductIds |->
                     [exists |-> TRUE, isActive |-> TRUE, price |-> Price0[p],
                      stockQuantity |-> 1]]
    /\ users = [ph \in Phones |-> NoUser]
    /\ \E s1 \in {"PENDING", "PAYMENT_REVIEW_REQUESTED", "COMPLETED"},
          ph \in Phones, at \in {1, 2} :
          orders = <<LedgerOrder("0771234567", s1, at),
                     LedgerOrder(ph, "PENDING", 3 - at)>>
    /\ orderItems = [k \in 1 .. 2 |-> [orderId |-> k, productId |-> 2, quantity |-> 1,
                                        unitPrice |-> Price0[2]]]
    /\ carts = <<>>
    /\ cartItems = <<>>
    /\ bank_details = "ACC 001-2345"
    /\ clock = 3
    /\ pc = [w \in Workers |-> "idle"]
    /\ loc = [w \in Workers |-> Idle]
    /\ res = [w \in Workers |-> Idle]
    /\ calls = 0
    /\ stock0 = [p \in ProductIds |-> products[p].stockQuantity]
    /\ sold = [p \in ProductIds |-> 0]
    /\ sent = <<>>
    /\ InitChat

NextLedger ==
    \E w \in Workers :
        \/ \E id \in OrderIdInputs, st \in StatusInputs : update_order_status(w, id, st)
        \/ StatusNotify(w)
        \/ \E id \in OrderIdInputs, ct \in ContentTypes, up \in BOOLEAN :
              upload_payment_receipt(w, id, ct, up)
        \/ \E ph \in Phones, ref \in TransactionRefs : confirm_user_payment(w, ph, ref)
        \/ ConfirmCommit(w)

SpecLedger == InitLedger /\ [][NextLedger]_vars

----------------------------------------------------------------------------
(* The storefront: POST /orders/place and POST /orders/initiate beside the  *)
(* admin's DELETE /products/{id}, on a catalog where product 2 may be gone  *)
(* or inactive and a customer may have a User row already                   *)

\* a User row written by an earlier request
StoredProfiles ==
    { [exists |-> TRUE, name |-> "J. Doe", email |-> e, address |-> "1 Old Rd"]
      : e \in {None, "jd@x.io"} }

StoreItemLists ==
    { <<>>,
      <<[product_id |-> 1, quantity |-> 1]>>,
      <<[product_id |-> 2, quantity |-> 2]>>,
      <<[product_id |-> 1, quantity |-> 1], [product_id |-> 2, quantity |-> 1]>> }

\* requests as they arrive at POST /orders/place, valid or not
StoreRequests ==
    UNION { { [user_phone |-> c.user_phone, user_name |-> c.user_name,
               user_email |-> c.user_email, shipping_address |-> c.shipping_address,
               payment_method |-> m, items |-> it]
              : m \in {c.payment_method, "PayPal"}, it \in StoreItemLists }
            : c \in Customers }

InitStore ==
    /\ products \in [ProductIds -> [exists : BOOLEAN, isActive : BOOLEAN,
                                    price : {Price0[1], Price0[2]},
                                    stockQuantity : 1 .. MaxStock]]
    /\ \A p \in ProductIds : products[p].price = Price0[p]
    /\ products[1].exists /\ products[1].isActive
    /\ products[1].stockQuantity = MaxStock
    /\ products[2].stockQuantity = 1
    /\ users \in [Phones -> {NoUser} \cup StoredProfiles]
    /\ users["0770000000"] = NoUser
    /\ orders = <<>>
    /\ orderItems = <<>>
    /\ carts = <<>>
    /\ cartItems = <<>>
    /\ bank_details = "ACC 001-2345"
    /\ clock = 1
    /\ pc = [w \in Workers |-> "idle"]
    /\ loc = [w \in Workers |-> Idle]
    /\ res = [w \in Workers |-> Idle]
    /\ calls = 0
    /\ stock0 = [p \in ProductIds |-> products[p].stockQuantity]
    /\ sold = [p \in ProductIds |-> 0]
    /\ sent = <<>>
    /\ InitChat

NextStore ==
    \E w \in Workers :
        \/ \E r \in StoreRequests : PlaceStart(w, r)
        \/ PlaceValidate(w)
        \/ PlaceFindUser(w)
        \/ PlaceCommit(w)
        \/ \E r \in DraftRequests : DraftStart(w, r)
        \/ DraftOrder(w)
        \/ DraftItems(w)
        \/ \E p \in ProductIds : delete_product(w, p)
        \/ DeleteCommit(w)

SpecStore == InitStore /\ [][NextStore]_vars

\* POST /orders/place and DELETE /products/{id} alone
NextDelete ==
    \E w \in Workers :
        \/ \E r \in StoreRequests : PlaceStart(w, r)
        \/ PlaceValidate(w)
        \/ PlaceFindUser(w)
        \/ PlaceCommit(w)
        \/ \E p \in ProductIds : delete_product(w, p)
        \/ DeleteCommit(w)

SpecDelete == InitStore /\ [][NextDelete]_vars

----------------------------------------------------------------------------
(* The chat: Message rows, the WhatsApp webhook, the admin's message and    *)
(* the AIAgent singleton behind POST /chat.  Texts are sequences of         *)
(* characters.                                                              *)

\* str.strip(): the text without its leading and trailing blanks
Strip(t) ==
    LET RECURSIVE LStrip(_), RStrip(_)
        LStrip(x) == IF x # <<>> /\ Head(x) = " " THEN LStrip(Tail(x)) ELSE x
        RStrip(x) == IF x # <<>> /\ x[Len(x)] = " "
                     THEN RStrip(SubSeq(x, 1, Len(x) - 1)) ELSE x
    IN  RStrip(LStrip(t))

\* str.split(): the words between the blanks; word is the word being read
RECURSIVE Split(_, _)
Split(t, word) ==
    IF t = <<>> THEN (IF word = <<>> THEN <<>> ELSE <<word>>)
    ELSE IF Head(t) = " "
         THEN (IF word = <<>> THEN <<>> ELSE <<word>>) \o Split(Tail(t), <<>>)
         ELSE Split(Tail(t), Append(word, Head(t)))

\* an add_message that stores every content
add_message_any(rows, user_phone, role, content) ==
    Append(rows, [exists |-> TRUE, user_phone |-> user_phone, role |-> role,
                  content |-> content])

\* the Message table after add_message(db, user_phone, role, content)
add_message(rows, user_phone, role, content) ==
    IF content = <<>> \/ Strip(content) = <<>> THEN rows
    ELSE Append(rows, [exists |-> TRUE, user_phone |-> user_phone, role |-> role,
                       content |-> content])

\* the Message table after clear_chat_history(db, user_phone)
clear_chat_history(rows, user_phone) ==
    [k \in 1 .. Len(rows) |->
        IF rows[k].user_phone = user_phone THEN [rows[k] EXCEPT !.exists = FALSE]
        ELSE rows[k]]

\* clear_history(user_id, clear_session) on the agent's two dicts
AgentCleared(user_id, clear_session) ==
    /\ conversation_history' = [conversation_history EXCEPT ![user_id] = NoHistory]
    /\ session_memory' = IF clear_session
                         THEN [session_memory EXCEPT ![user_id] = NoSession]
                         ELSE session_memory

\* text bodies of WhatsApp messages: "  ", "hi", " /Clear"
TextInputs ==
    { <<" ", " ">>, <<"h", "i">>, <<" ", "/", "C", "l", "e", "a", "r">> }

\* POST /whatsapp with a text message.  The background task it schedules
\* calls agent.generate_response_with_images, which AIAgent does not define:
\* the AttributeError is caught at line 133 and no reply is stored.
whatsapp_webhook(from_number, user_message) ==
    /\ calls < MaxCalls
    /\ calls' = calls + 1
    /\ IF Lower(Strip(user_message)) = <<"/", "c", "l", "e", "a", "r">>
       THEN /\ messages' = clear_chat_history(messages, from_number)
            /\ AgentCleared(from_number, TRUE)
       ELSE /\ messages' = add_message(messages, from_number, "user", user_message)
            /\ UNCHANGED <<session_memory, conversation_history>>
    /\ UNCHANGED <<dbvars, clock, pc, loc, res, stock0, sold, sent>>

\* POST /admin/chats/{phone_number}/send: the stripped text is stored as an
\* assistant message; an empty one is answered with an error
send_admin_message(phone_number, message) ==
    /\ calls < MaxCalls
    /\ calls' = calls + 1
    /\ messages' = IF Strip(message) = <<>> THEN messages
                   ELSE Append(messages, [exists |-> TRUE, user_phone |-> phone_number,
                                          role |-> "assistant",
                                          content |-> Strip(message)])
    /\ UNCHANGED <<dbvars, clock, pc, loc, res, stock0, session_memory,
                   conversation_history, sold, sent>>

blocked_keywords ==
    { <<"p", "a", "s", "s", "w", "o", "r", "d">>, <<"a", "d", "m", "i", "n">>,
      <<"d", "e", "l", "e", "t", "e">>, <<"u", "p", "d", "a", "t", "e">>,
      <<"i", "n", "s", "e", "r", "t">>, <<"d", "r", "o", "p">>,
      <<"t", "a", "b", "l", "e">>, <<"d", "a", "t", "a", "b", "a", "s", "e">>,
      <<"s", "q", "l">> }

\* _validate_query: no blocked keyword stands in the query as a whole word
validate_query(query) ==
    LET words == Split(Lower(query), <<>>)
    IN  ~ \E k \in 1 .. Len(words) : words[k] \in blocked_keywords

\* _find_products(text)[0]: the active product of the highest score, the
\* first of them in table order; 0 when the list is empty.  The score is 3
\* for every query word of more than two characters that is part of the
\* product's name.
find_products(text) ==
    LET words == Split(Lower(text), <<>>)
        Score(p) ==
            3 * Cardinality({k \in 1 .. Len(words) :
                                Len(words[k]) > 2
                                /\ IsIn(words[k], Lower(ProductName[p]))})
        found == {p \in ProductIds : /\ products[p].exists /\ products[p].isActive
                                      /\ Score(p) > 0}
    IN  IF found = {} THEN 0
        ELSE CHOOSE p \in found : \A q \in found :
                 \/ Score(q) < Score(p)
                 \/ Score(q) = Score(p) /\ p <= q

\* a slice that keeps the oldest entries
OldestEntries(entries, n) ==
    IF Len(entries) > n THEN SubSeq(entries, 1, n) ELSE entries

\* entries[-n:] when there are more than n
LatestEntries(entries, n) ==
    IF Len(entries) > n THEN SubSeq(entries, Len(entries) - n + 1, Len(entries))
    ELSE entries

HistoryLimit == 20

\* utterances sent to POST /chat: "Mouse", "headphones", "hi", "delete mouse"
Utterances ==
    { <<"M", "o", "u", "s", "e">>,
      <<"h", "e", "a", "d", "p", "h", "o", "n", "e", "s">>,
      <<"h", "i">>,
      <<"d", "e", "l", "e", "t", "e", " ", "m", "o", "u", "s", "e">> }

\* the text of the assistant
ai_response == <<"o", "k">>

\* generate_response(user_query, db, user_id), as POST /chat calls it; outcome
\* is how the call ends: "mock" without a Groq client, "error" when the API
\* call raises, "reply" when it answers
generate_response(user_query, user_id, outcome) ==
    /\ calls < MaxCalls
    /\ calls' = calls + 1
    /\ IF ~validate_query(user_query)
       THEN UNCHANGED <<session_memory, conversation_history>>
       ELSE LET session == IF session_memory[user_id].present
                           THEN session_memory[user_id]
                           ELSE [NoSession EXCEPT !.present = TRUE]
                product == find_products(user_query)
                entries == conversation_history[user_id].entries
            IN  /\ session_memory' = [session_memory EXCEPT ![user_id] =
                       IF product # 0 /\ session.product_name = <<>>
                       THEN [session EXCEPT !.product_id = product,
                                            !.product_name = ProductName[product]]
                       ELSE session]
                /\ IF outcome = "reply"
                   THEN conversation_history' =
                          [conversation_history EXCEPT ![user_id] =
                              [present |-> TRUE,
                               entries |-> LatestEntries(
                                   entries \o <<[role |-> "user", content |-> user_query],
                                                [role |-> "assistant",
                                                 content |-> ai_response]>>,
                                   HistoryLimit)]]
                   ELSE UNCHANGED conversation_history
    /\ UNCHANGED <<dbvars, clock, pc, loc, res, stock0, messages, sold, sent>>

\* agent.clear_history(user_id, clear_session)
clear_history(user_id, clear_session) ==
    /\ calls < MaxCalls
    /\ calls' = calls + 1
    /\ AgentCleared(user_id, clear_session)
    /\ UNCHANGED <<dbvars, clock, pc, loc, res, stock0, messages, sold, sent>>

\* a history of n earlier entries, each of its own text
Filled(n) ==
    LET OldTexts ==
            <<"01", "02", "03", "04", "05", "06", "07", "08", "09", "10",
              "11", "12", "13", "14", "15", "16", "17", "18", "19", "20">>
    IN  [present |-> TRUE,
         entries |-> [k \in 1 .. n |->
                        [role |-> IF k % 2 = 1 THEN "user" ELSE "assistant",
                         content |-> <<OldTexts[k]>>]]]

\* the first customer has no history, or one of HistoryLimit - 2 or of
\* HistoryLimit entries, and no session or one that points at product 1;
\* the second has a short history and a session; the Message table is
\* empty or holds a message of each
InitAgent ==
    /\ products = [p \in ProductIds |->
                      [exists |-> TRUE, isActive |-> TRUE, price |-> Price0[p],
                       stockQuantity |-> MaxStock]]
    /\ users = [ph \in Phones |-> NoUser]
    /\ orders = <<>>
    /\ orderItems = <<>>
    /\ carts = <<>>
    /\ cartItems = <<>>
    /\ bank_details = "ACC 001-2345"
    /\ clock = 1
    /\ pc = [w \in Workers |-> "idle"]
    /\ loc = [w \in Workers |-> Idle]
    /\ res = [w \in Workers |-> Idle]
    /\ calls = 0
    /\ stock0 = [p \in ProductIds |-> products[p].stockQuantity]
    /\ sold = [p \in ProductIds |-> 0]
    /\ sent = <<>>
    /\ messages \in { <<>>,
                       add_message(add_message(<<>>, "0771234567", "user", <<"h", "i">>),
                                   "0770000000", "assistant", ai_response) }
    /\ session_memory \in
          { [u \in Phones |->
                IF u = "0770000000"
                THEN [present |-> TRUE, product_id |-> 2, product_name |-> ProductName[2]]
                ELSE first]
            : first \in {NoSession,
                          [present |-> TRUE, product_id |-> 1,
                           product_name |-> ProductName[1]]} }
    /\ conversation_history \in
          { [u \in Phones |-> IF u = "0770000000" THEN Filled(2) ELSE first]
            : first \in {NoHistory, Filled(HistoryLimit - 2), Filled(HistoryLimit)} }

NextAgent ==
    \/ \E ph \in Phones, t \in TextInputs : whatsapp_webhook(ph, t)
    \/ \E ph \in Phones, t \in TextInputs : send_admin_message(ph, t)
    \/ \E q \in Utterances, u \in Phones, o \in {"mock", "error", "reply"} :
          generate_response(q, u, o)
    \/ \E u \in Phones, c \in BOOLEAN : clear_history(u, c)

SpecAgent == InitAgent /\ [][NextAgent]_vars

----------------------------------------------------------------------------
(* Every operation, for one customer, on a database that holds no order or *)
(* one order whose payment is under review                                  *)

CorePhones == {"0771234567"}
CoreCustomers == {c \in Customers : c.user_phone \in CorePhones}

\* the place_order requests sent beside the other operations
CoreRequests ==
    {r \in PlaceOrderRequests :
        /\ r.user_phone \in CorePhones
        /\ r.items \in { <<[product_id |-> 1, quantity |-> 1]>>,
                         <<[product_id |-> 1, quantity |-> -1]>>,
                         <<[product_id |-> 1, quantity |-> 1],
                           [product_id |-> 2, quantity |-> 1]>> }}

CoreDraftRequests == {r \in DraftRequests : r.user_phone \in CorePhones}

\* the admin's targets beside the other operations: a forward edge, the
\* cancellation and an unknown name
CoreStatusInputs == {"PAID", "CANCELLED", "REFUNDED"}

\* the items strings sent beside the other operations: one that names a
\* product on sale and one that names none
CoreCartInputs == {it \in CartInputs : it[1].qty = 2 \/ it[1].name[1] = "l"}

InitCore ==
    /\ products \in [ProductIds -> [exists : {TRUE}, isActive : BOOLEAN,
                                    price : {Price0[1], Price0[2]},
                                    stockQuantity : 0 .. MaxStock]]
    /\ \A p \in ProductIds : products[p].price = Price0[p]
    /\ products[1].isActive
    /\ products[1].stockQuantity \in {0, MaxStock}
    /\ products[2].stockQuantity = 1
    /\ users = [ph \in Phones |-> NoUser]
    /\ \/ orders = <<>> /\ orderItems = <<>> /\ clock = 1
       \/ /\ orders = <<LedgerOrder("0771234567", "PAYMENT_REVIEW_REQUESTED", 1)>>
          /\ orderItems = <<[orderId |-> 1, productId |-> 2, quantity |-> 1,
                             unitPrice |-> Price0[2]]>>
          /\ clock = 2
    /\ carts = <<>>
    /\ cartItems = <<>>
    /\ bank_details = "ACC 001-2345"
    /\ pc = [w \in Workers |-> "idle"]
    /\ loc = [w \in Workers |-> Idle]
    /\ res = [w \in Workers |-> Idle]
    /\ calls = 0
    /\ stock0 = [p \in ProductIds |-> products[p].stockQuantity]
    /\ sold = [p \in ProductIds |-> 0]
    /\ sent = <<>>
    /\ InitChat

Handlers(w) ==
    \/ \E r \in CoreRequests : PlaceStart(w, r)
    \/ PlaceSteps(w)
    \/ \E r \in CoreDraftRequests : DraftStart(w, r)
    \/ DraftOrder(w)
    \/ DraftItems(w)
    \/ \E it \in CoreCartInputs, ph \in CorePhones : AddStart(w, it, ph)
    \/ AddCreate(w)
    \/ AddLoop(w)
    \/ AddCommit(w)
    \/ \E c \in CoreCustomers : InvoiceStart(w, c)
    \/ InvoiceCart(w)
    \/ InvoiceLines(w)
    \/ InvoiceOrder(w)
    \/ InvoiceItems(w)
    \/ \E id \in OrderIdInputs, st \in CoreStatusInputs : update_order_status(w, id, st)
    \/ StatusNotify(w)
    \/ \E id \in OrderIdInputs, ct \in ContentTypes :
          upload_payment_receipt(w, id, ct, TRUE)
    \/ \E ph \in CorePhones, ref \in TransactionRefs : confirm_user_payment(w, ph, ref)
    \/ ConfirmCommit(w)
    \/ \E p \in ProductIds : delete_product(w, p)
    \/ DeleteCommit(w)
    \/ \E ph \in CorePhones : get_payment_details(w, ph)

Next ==
    \/ \E w \in Workers : Handlers(w)
    \/ \E p \in ProductIds, u \in ProductUpdates : update_product(p, u)
    \/ \E ph \in CorePhones : view_cart(ph)
    \/ \E b \in BankDetailsInputs : update_settings(b)

Spec == InitCore /\ [][Next]_vars

----------------------------------------------------------------------------
(* add_to_cart alone, on a database where one customer has a cart *)

\* an items string that names one product in two entries: "1x Mouse, 2x mouse"
CartRepeats ==
    { <<[qty |-> 1, name |-> <<"M", "o", "u", "s", "e">>],
        [qty |-> 2, name |-> <<"m", "o", "u", "s", "e">>]>> }

\* the first customer's cart exists, empty or with one Mouse
InitCart ==
    /\ products = [p \in ProductIds |->
                     [exists |-> TRUE, isActive |-> TRUE, price |-> Price0[p],
                      stockQuantity |-> 1]]
    /\ users = [ph \in Phones |-> NoUser]
    /\ orders = <<>>
    /\ orderItems = <<>>
    /\ carts = <<[exists |-> TRUE, user_phone |-> "0771234567"]>>
    /\ cartItems \in { <<>>,
                       <<[exists |-> TRUE, cart_id |-> 1, product_id |-> 2,
                          quantity |-> 1]>> }
    /\ bank_details = "ACC 001-2345"
    /\ clock = 1
    /\ pc = [w \in Workers |-> "idle"]
    /\ loc = [w \in Workers |-> Idle]
    /\ res = [w \in Workers |-> Idle]
    /\ calls = 0
    /\ stock0 = [p \in ProductIds |-> products[p].stockQuantity]
    /\ sold = [p \in ProductIds |-> 0]
    /\ sent = <<>>
    /\ InitChat

\* concurrent add_to_cart calls, each naming a product at most once
NextCart ==
    \E w \in Workers :
        \/ \E it \in CartInputs, ph \in Phones : AddStart(w, it, ph)
        \/ AddCreate(w)
        \/ AddLoop(w)
        \/ AddCommit(w)

SpecCart == InitCart /\ [][NextCart]_vars

\* add_to_cart calls one after the other, with any items string
NextCartSeq ==
    \E w \in Workers :
        \/ /\ \A v \in Workers : pc[v] = "idle"
           /\ \E it \in CartInputs \cup CartRepeats, ph \in Phones : AddStart(w, it, ph)
        \/ AddCreate(w)
        \/ AddLoop(w)
        \/ AddCommit(w)

SpecCartSeq == InitCart /\ [][NextCartSeq]_vars

----------------------------------------------------------------------------
(* The conversational tools: add_to_cart, generate_invoice and             *)
(* get_payment_details, for two customers                                   *)

\* items strings: "2x Headphones, 1x mouse", "1x lamp, 1x Mouse", "0x Mouse"
ToolItems ==
    { <<[qty |-> 2, name |-> <<"H", "e", "a", "d", "p", "h", "o", "n", "e", "s">>],
        [qty |-> 1, name |-> <<"m", "o", "u", "s", "e">>]>>,
      <<[qty |-> 1, name |-> <<"l", "a", "m", "p">>],
        [qty |-> 1, name |-> <<"M", "o", "u", "s", "e">>]>>,
      <<[qty |-> 0, name |-> <<"M", "o", "u", "s", "e">>]>> }

\* the first customer has no cart, an empty cart, or a cart of 2 Headphones and
\* 1 Mouse; the Mouse may have been withdrawn from sale since, and one
\* Headphones fewer than the cart asks is in stock
InitTools ==
    /\ products \in [ProductIds -> [exists : {TRUE}, isActive : BOOLEAN,
                                    price : {Price0[1], Price0[2]},
                                    stockQuantity : 0 .. MaxStock]]
    /\ \A p \in ProductIds : products[p].price = Price0[p]
    /\ products[1].isActive
    /\ products[1].stockQuantity = 1
    /\ products[2].stockQuantity = MaxStock
    /\ users = [ph \in Phones |-> NoUser]
    /\ orders = <<>>
    /\ orderItems = <<>>
    /\ \/ carts = <<>> /\ cartItems = <<>>
       \/ /\ carts = <<[exists |-> TRUE, user_phone |-> "0771234567"]>>
          /\ cartItems \in { <<>>,
                             <<[exists |-> TRUE, cart_id |-> 1, product_id |-> 1,
                                quantity |-> 2],
                               [exists |-> TRUE, cart_id |-> 1, product_id |-> 2,
                                quantity |-> 1]>> }
    /\ bank_details \in BankDetailsInputs
    /\ clock = 1
    /\ pc = [w \in Workers |-> "idle"]
    /\ loc = [w \in Workers |-> Idle]
    /\ res = [w \in Workers |-> Idle]
    /\ calls = 0
    /\ stock0 = [p \in ProductIds |-> products[p].stockQuantity]
    /\ sold = [p \in ProductIds |-> 0]
    /\ sent = <<>>
    /\ InitChat

ToolSteps(w) ==
    \/ AddCreate(w)
    \/ AddLoop(w)
    \/ AddCommit(w)
    \/ InvoiceCart(w)
    \/ InvoiceLines(w)
    \/ InvoiceOrder(w)
    \/ InvoiceItems(w)

ToolStarts(w) ==
    \/ \E it \in ToolItems, ph \in Phones : AddStart(w, it, ph)
    \/ \E c \in Customers : InvoiceStart(w, c)

\* tool calls that run concurrently
NextTools ==
    \/ \E w \in Workers : ToolStarts(w) \/ ToolSteps(w)
    \/ \E w \in Workers, ph \in Phones : get_payment_details(w, ph)

SpecTools == InitTools /\ [][NextTools]_vars

\* tool calls one after the other: a call starts only when no other runs
NextToolsSeq ==
    \/ \E w \in Workers :
          \/ (\A v \in Workers : pc[v] = "idle") /\ ToolStarts(w)
          \/ ToolSteps(w)
    \/ /\ \A v \in Workers : pc[v] = "idle"
       /\ \E w \in Workers, ph \in Phones : get_payment_details(w, ph)

SpecToolsSeq == InitTools /\ [][NextToolsSeq]_vars

----------------------------------------------------------------------------
(* Claims *)

OneOf(line) == <<line>>
Unit1 == [product_id |-> 1, quantity |-> 1]
Finished(w) == pc[w] = "idle" /\ res[w].op = "place_order"

\* C1: under every interleaving of concurrent place_order calls the stock of a
\* product is never negative and the quantity successfully ordered never
\* exceeds the stock the product had at the start.
C1_NoOversell ==
    \A p \in ProductIds : products[p].stockQuantity >= 0 /\ sold[p] <= stock0[p]

\* C2: stock 1 and two concurrent calls for one unit each (neither hit by a
\* storage failure): exactly one succeeds and leaves stock 0, the other is
\* refused with insufficient stock.
C2_ExactlyOneSucceeds ==
    ( /\ stock0[1] = 1
      /\ \A w \in Workers : Finished(w) /\ res[w].items = OneOf(Unit1)
                            /\ res[w].status # 500 )
    => /\ \E w \in Workers : /\ res[w].status = 200
                             /\ \A v \in Workers \ {w} : res[v].status = 400
       /\ products[1].stockQuantity = 0

Moved(w) == pc'[w] # pc[w] \/ loc'[w] # loc[w]
Succeeds(w) == pc[w] = "place_commit" /\ res'[w].op = "place_order" /\ res'[w].status = 200

C4_SuccessfulCommit ==
    [][\A w \in Workers :
         Succeeds(w) =>
           LET items == loc[w].req.items
               id == Len(orders) + 1
           IN  /\ Len(orders') = id
               /\ orders'[id].status = "PENDING"
               /\ Len(orderItems') = Len(orderItems) + Len(items)
               /\ \A k \in 1 .. Len(items) :
                    LET oi == orderItems'[Len(orderItems) + k]
                    IN  /\ oi.orderId = id
                        /\ oi.productId = items[k].product_id
                        /\ oi.quantity = items[k].quantity
                        /\ oi.unitPrice = products[items[k].product_id].price
               /\ orders'[id].totalAmount =
                    SumSeq([k \in 1 .. Len(items) |->
                              orderItems'[Len(orderItems) + k].unitPrice
                              * items[k].quantity])
               /\ \A p \in ProductIds :
                    products'[p].stockQuantity
                      = products[p].stockQuantity - QtyOf(items, p)]_vars

\* C5: after place_order calls run one at a time the stock of every product
\* is still >= 0.
C5_StockNonNegative ==
    \A p \in ProductIds : products[p].stockQuantity >= 0

\* C6: no operation but the admin's product update ever raises the stock of
\* a product.
C6_StockNeverIncreases ==
    [][\/ \E p \in ProductIds, u \in ProductUpdates : update_product(p, u)
       \/ \A p \in ProductIds :
             products'[p].stockQuantity <= products[p].stockQuantity]_vars

\* C7: a step that changes the price of a product changes the totalAmount of no
\* existing Order and the unitPrice of no existing OrderItem.
C7_PriceChangeKeepsOrders ==
    [][(\E p \in ProductIds : products'[p].price # products[p].price)
       => /\ Len(orders') = Len(orders)
          /\ \A k \in 1 .. Len(orders) : orders'[k].totalAmount = orders[k].totalAmount
          /\ Len(orderItems') = Len(orderItems)
          /\ \A k \in 1 .. Len(orderItems) :
                orderItems'[k].unitPrice = orderItems[k].unitPrice]_vars

\* an order line carries a unit price that is no longer the catalog price
C7_Witness ==
    \E k \in 1 .. Len(orderItems) :
        /\ products[orderItems[k].productId].price # orderItems[k].unitPrice
        /\ orders[orderItems[k].orderId].totalAmount > 0

\* sum of quantity x unitPrice over the OrderItems of order id
RECURSIVE ItemsTotal(_, _)
ItemsTotal(id, k) ==
    IF k > Len(orderItems) THEN 0
    ELSE (IF orderItems[k].orderId = id
          THEN orderItems[k].quantity * orderItems[k].unitPrice ELSE 0)
         + ItemsTotal(id, k + 1)

\* C8: in every committed state the totalAmount of every Order is the sum of
\* quantity x unitPrice over its OrderItems.
C8_TotalIsSumOfItems ==
    \A id \in 1 .. Len(orders) : orders[id].totalAmount = ItemsTotal(id, 1)

Frozen(o) ==
    <<o.userId, o.totalAmount, o.customerName, o.customerEmail, o.customerPhone,
      o.shippingAddress, o.paymentMethod, o.createdAt>>

\* C9: once an Order row is committed only its status, paymentRef and
\* paymentReceiptUrl change: its other columns and its OrderItems stay.
C9_OrderFrozenAfterCreation ==
    [][/\ \A id \in 1 .. Len(orders) :
            /\ id <= Len(orders')
            /\ Frozen(orders'[id]) = Frozen(orders[id])
       /\ \A k \in 1 .. Len(orderItems) :
            k <= Len(orderItems') /\ orderItems'[k] = orderItems[k]
       /\ \A k \in (Len(orderItems) + 1) .. Len(orderItems') :
            orderItems'[k].orderId > Len(orders)]_vars

LifecycleEdges ==
    { <<"PENDING", "PAYMENT_REVIEW_REQUESTED">>, <<"PAYMENT_REVIEW_REQUESTED", "PAID">>,
      <<"PAID", "SHIPPED">>, <<"SHIPPED", "COMPLETED">> }
    \cup {<<s, "CANCELLED">> : s \in {"PENDING", "PAYMENT_REVIEW_REQUESTED", "PAID",
                                      "SHIPPED"}}

\* C10: the status of an Order changes only along a lifecycle edge, so never
\* out of COMPLETED or CANCELLED.
C10_LifecycleEdgesOnly ==
    [][\A id \in 1 .. Len(orders) :
          orders'[id].status # orders[id].status
          => <<orders[id].status, orders'[id].status>> \in LifecycleEdges]_vars

\* the request of the status-update call that worker w makes in this step
StatusRequest(w) == IF pc'[w] = "status_notify" THEN loc'[w] ELSE res'[w]

StatusCall(w) ==
    /\ pc[w] = "idle" /\ calls' = calls + 1
    /\ StatusRequest(w).op = "update_order_status"
    /\ update_order_status(w, StatusRequest(w).order_id, StatusRequest(w).status)

Rejected(w) ==
    /\ pc'[w] = "idle"
    /\ res'[w].op = "update_order_status" /\ res'[w].code \in {400, 404}
    /\ orders' = orders /\ sent' = sent

\* C11 as stated: a request whose status string is none of the six names is
\* rejected with no mutation and no notification.
C11_UnsupportedStatusRejected ==
    [][\A w \in Workers :
          (StatusCall(w)
           /\ (\/ StatusRequest(w).status \notin valid_statuses
               \/ StatusRequest(w).order_id \notin 1 .. Len(orders)))
          => Rejected(w)]_vars

\* C11: a status-update request whose status string, upper-cased, is none of
\* the six names, or whose order id names no order, is rejected (400, 404):
\* no order changes and send_reply is not called.
C11_UnsupportedStatusRejectedAnyCase ==
    [][\A w \in Workers :
          (StatusCall(w)
           /\ (\/ Upper(StatusRequest(w).status) \notin valid_statuses
               \/ StatusRequest(w).order_id \notin 1 .. Len(orders)))
          => Rejected(w)]_vars

C11_Witness ==
    \E w \in Workers :
        /\ pc[w] = "idle" /\ res[w].op = "update_order_status"
        /\ res[w].code = 400 /\ res[w].status = "REFUNDED"
        /\ res[w].order_id \in 1 .. Len(orders)

\* C12: after a status update that moved an order with a customer phone from
\* PAYMENT_REVIEW_REQUESTED to PAID and whose notification block raised
\* nothing, a message to that phone has been handed to the transport.
C12_NotificationDispatched ==
    \A w \in Workers :
        ( /\ pc[w] = "idle" /\ res[w].op = "update_order_status"
          /\ res[w].code = 200 /\ res[w].notify = "called"
          /\ Truthy(orders[res[w].order_id].customerPhone) )
        => \E k \in 1 .. Len(sent) :
              /\ sent[k].to = orders[res[w].order_id].customerPhone
              /\ sent[k].order_id = res[w].order_id
              /\ sent[k].ran

\* C13: the step that commits PAYMENT_REVIEW_REQUESTED -> PAID calls no
\* notification; send_reply is called only in the later notification step;
\* that step, also when its block raises, changes no order and returns the
\* success result.
C13_CommitBeforeNotify ==
    [][/\ \A w \in Workers :
            /\ (pc[w] = "idle" /\ pc'[w] = "status_notify")
               => /\ orders'[loc'[w].order_id].status = "PAID"
                  /\ sent' = sent
            /\ (pc[w] = "status_notify" /\ pc'[w] = "idle")
               => /\ orders' = orders
                  /\ res'[w].op = "update_order_status" /\ res'[w].code = 200
       /\ sent' # sent
          => \E w \in Workers : pc[w] = "status_notify" /\ pc'[w] = "idle"]_vars

C13_Witness ==
    \E w \in Workers :
        /\ pc[w] = "idle" /\ res[w].op = "update_order_status"
        /\ res[w].notify = "raised" /\ res[w].code = 200
        /\ orders[res[w].order_id].status = "PAID"

\* worker w starts a confirm-payment call for phone ph in this step
ConfirmCall(w, ph) ==
    \E ref \in TransactionRefs : confirm_user_payment(w, ph, ref)

\* worker w makes a receipt upload in this step; stored: the file was stored
UploadCall(w, stored) ==
    /\ pc[w] = "idle" /\ calls' = calls + 1
    /\ res'[w].op = "upload_payment_receipt"
    /\ upload_payment_receipt(w, res'[w].order_id, res'[w].content_type, stored)

AdminStatuses == {"PAID", "SHIPPED", "COMPLETED", "CANCELLED"}

\* C14: an order gets status PAID, SHIPPED, COMPLETED or CANCELLED only in a
\* step of the admin's status update.
C14_AdminOnlyStatuses ==
    [][\A id \in 1 .. Len(orders') :
          ( /\ orders'[id].status \in AdminStatuses
            /\ (id > Len(orders) \/ orders[id].status # orders'[id].status) )
          => \E w \in Workers, i \in OrderIdInputs, st \in StatusInputs :
                update_order_status(w, i, st)]_vars

\* an order placed by a customer was put to PAID by the admin
C14_Witness ==
    \E w \in Workers :
        /\ pc[w] = "idle" /\ res[w].op = "update_order_status"
        /\ res[w].code = 200 /\ Upper(res[w].status) = "PAID"
        /\ orders[res[w].order_id].status = "PAID"

\* C15: a confirm-payment call that finds a PENDING order of the phone takes
\* the PENDING order of the latest createdAt, and its commit sets that order
\* to PAYMENT_REVIEW_REQUESTED, stores the reference when one is given, and
\* changes no other order.
C15_LatestPendingConfirmed ==
    [][\A w \in Workers :
          /\ \A ph \in Phones :
                ( /\ ConfirmCall(w, ph)
                  /\ \E j \in 1 .. Len(orders) :
                        orders[j].customerPhone = ph /\ orders[j].status = "PENDING" )
                => LET k == loc'[w].order_id
                   IN  /\ pc'[w] = "confirm_commit"
                       /\ k \in 1 .. Len(orders)
                       /\ orders[k].customerPhone = ph /\ orders[k].status = "PENDING"
                       /\ \A j \in 1 .. Len(orders) :
                             (orders[j].customerPhone = ph /\ orders[j].status = "PENDING")
                             => orders[j].createdAt <= orders[k].createdAt
          /\ (ConfirmCommit(w) /\ res'[w].text = "thank you")
             => orders' = [orders EXCEPT
                   ![loc[w].order_id].status = "PAYMENT_REVIEW_REQUESTED",
                   ![loc[w].order_id].paymentRef =
                       IF loc[w].ref = None THEN @ ELSE loc[w].ref]]_vars

\* a confirmation with a reference went to the later of two PENDING orders of
\* one phone, and the earlier one, of a higher id, is PENDING still
C15_Witness ==
    \E w \in Workers, j \in 1 .. Len(orders) :
        /\ pc[w] = "idle" /\ res[w].op = "confirm_user_payment"
        /\ res[w].text = "thank you" /\ res[w].ref # None
        /\ j > res[w].order_id
        /\ orders[j].customerPhone = res[w].phone /\ orders[j].status = "PENDING"
        /\ orders[res[w].order_id].paymentRef = res[w].ref

\* C16: a confirm-payment call for a phone with no PENDING order answers with
\* the "no pending order" text and changes no order.
C16_NoPendingNoMutation ==
    [][\A w \in Workers, ph \in Phones :
          ( /\ ConfirmCall(w, ph)
            /\ ~ \E j \in 1 .. Len(orders) :
                    orders[j].customerPhone = ph /\ orders[j].status = "PENDING" )
          => /\ pc'[w] = "idle"
             /\ res'[w].op = "confirm_user_payment" /\ res'[w].phone = ph
             /\ res'[w].text = "no pending order"
             /\ orders' = orders]_vars

\* the answer was given with a reference, for a phone that has an order
C16_Witness ==
    \E w \in Workers, j \in 1 .. Len(orders) :
        /\ pc[w] = "idle" /\ res[w].op = "confirm_user_payment"
        /\ res[w].text = "no pending order" /\ res[w].ref # None
        /\ orders[j].customerPhone = res[w].phone

\* C17: an upload answered with 200 was for an existing order, an allowed type
\* and a stored file, and sets exactly that order's paymentReceiptUrl and its
\* status to PAYMENT_REVIEW_REQUESTED, whatever the status was; an upload for
\* an unknown order, a disallowed type or a failed storage upload is not
\* answered with 200, and every upload not answered with 200 changes no order.
C17_ReceiptUpload ==
    [][\A w \in Workers, up \in BOOLEAN :
          UploadCall(w, up) =>
          LET id == res'[w].order_id
              ct == res'[w].content_type
          IN
             /\ pc'[w] = "idle"
             /\ (id \notin 1 .. Len(orders) \/ ct \notin allowed_types \/ ~up)
                => res'[w].code # 200
             /\ IF res'[w].code = 200
                THEN orders' = [orders EXCEPT
                                  ![id].paymentReceiptUrl = ReceiptUrl,
                                  ![id].status = "PAYMENT_REVIEW_REQUESTED"]
                ELSE orders' = orders]_vars

\* an order was set to COMPLETED by one call and its receipt uploaded by a
\* later one
C17_Witness ==
    \E w, v \in Workers :
        /\ pc[w] = "idle" /\ res[w].op = "update_order_status"
        /\ res[w].status = "COMPLETED" /\ res[w].code = 200
        /\ pc[v] = "idle" /\ res[v].op = "upload_payment_receipt" /\ res[v].code = 200
        /\ res[v].order_id = res[w].order_id
        /\ orders[res[v].order_id].status = "PAYMENT_REVIEW_REQUESTED"

\* the live CartItem rows of a cart for a product
RowsFor(cis, cart_id, p) ==
    {k \in 1 .. Len(cis) :
        cis[k].exists /\ cis[k].cart_id = cart_id /\ cis[k].product_id = p}

\* the quantity a cart holds of a product, over all its rows from row k on
RECURSIVE CartQuantity(_, _, _, _)
CartQuantity(cis, cart_id, p, k) ==
    IF k > Len(cis) THEN 0
    ELSE (IF k \in RowsFor(cis, cart_id, p) THEN cis[k].quantity ELSE 0)
         + CartQuantity(cis, cart_id, p, k + 1)

\* what a call's summary says it added of a product, and in how many entries
RECURSIVE SummaryQty(_, _)
SummaryQty(summary, p) ==
    IF summary = <<>> THEN 0
    ELSE (IF Head(summary).product_id = p THEN Head(summary).qty ELSE 0)
         + SummaryQty(Tail(summary), p)

Mentions(summary, p) ==
    Cardinality({k \in 1 .. Len(summary) : summary[k].product_id = p})

AddSucceeds(w) ==
    /\ pc[w] = "cart_commit" /\ pc'[w] = "idle"
    /\ res'[w].op = "add_to_cart" /\ res'[w].status = "added"

\* C18: when add_to_cart calls follow one another, a call that names a product
\* once with quantity q, on a cart with at most one row of the product, leaves
\* exactly one row of it, with the quantity the cart had before plus q.
C18_SameProductAccumulates ==
    [][\A w \in Workers : AddSucceeds(w) =>
          \A p \in ProductIds :
             ( /\ Mentions(loc[w].st.summary, p) = 1
               /\ Cardinality(RowsFor(cartItems, loc[w].cart_id, p)) <= 1 )
             => /\ Cardinality(RowsFor(cartItems', loc[w].cart_id, p)) = 1
                /\ CartQuantity(cartItems', loc[w].cart_id, p, 1)
                   = CartQuantity(cartItems, loc[w].cart_id, p, 1)
                     + SummaryQty(loc[w].st.summary, p)]_vars

\* two calls for the customer without a cart each added Mouse once: one row
\* with the sum of the two quantities
C18_Witness ==
    /\ \A w \in Workers :
          /\ pc[w] = "idle" /\ res[w].op = "add_to_cart" /\ res[w].status = "added"
          /\ res[w].phone = "0770000000"
          /\ Mentions(res[w].summary, 2) = 1
    /\ Len(carts) = 2
    /\ Cardinality(RowsFor(cartItems, 2, 2)) = 1
    /\ CartQuantity(cartItems, 2, 2, 1)
       = SummaryQty(res["t1"].summary, 2) + SummaryQty(res["t2"].summary, 2)

\* C19: under every interleaving of add_to_cart calls, each successful call
\* raises the quantity its cart holds of every product by the quantity the
\* call added: no addition is lost.
C19_NoLostUpdate ==
    [][\A w \in Workers : AddSucceeds(w) =>
          \A p \in ProductIds :
             CartQuantity(cartItems', loc[w].cart_id, p, 1)
             = CartQuantity(cartItems, loc[w].cart_id, p, 1)
               + SummaryQty(loc[w].st.summary, p)]_vars

\* C20: in every state a cart has at most one CartItem row per product.
C20_OneLinePerProduct ==
    \A cart_id \in 1 .. Len(carts), p \in ProductIds :
        Cardinality(RowsFor(cartItems, cart_id, p)) <= 1

\* the existing Cart rows of an identity
CartsOf(phone) ==
    {k \in 1 .. Len(carts) : carts[k].exists /\ carts[k].user_phone = phone}

C22_QuantityAtLeastOne ==
    \A k \in 1 .. Len(cartItems) : cartItems[k].exists => cartItems[k].quantity >= 1

\* an entry names product p: one name contains the other, ignoring case, and
\* p is on sale
Resolves(e, p) ==
    /\ products[p].exists /\ products[p].isActive
    /\ \/ IsIn(Lower(ProductName[p]), Lower(e.name))
       \/ IsIn(Lower(e.name), Lower(ProductName[p]))

\* the entries of an items string that name an active product, as
\* (quantity, product) pairs in the order of the string
RECURSIVE AddedOf(_)
AddedOf(entries) ==
    IF entries = <<>> THEN <<>>
    ELSE LET e == Head(entries)
             ps == {p \in ProductIds : Resolves(e, p)}
         IN  (IF ps = {} THEN <<>>
              ELSE <<[qty |-> e.qty, product_id |-> CHOOSE p \in ps : \A q \in ps : p <= q]>>)
             \o AddedOf(Tail(entries))

\* C23: when add_to_cart calls follow one another, a call that does not end
\* in the error text lists in its summary exactly the entries that name an
\* active product, and the cart holds of every product what it held before
\* plus what those entries ask; the other entries are dropped.
C23_UnresolvedDropped ==
    [][\A w \in Workers :
          ( /\ pc[w] = "cart_commit" /\ pc'[w] = "idle"
            /\ res'[w].op = "add_to_cart" /\ res'[w].status # "error" )
          => /\ res'[w].summary = AddedOf(loc[w].items)
             /\ res'[w].status = IF AddedOf(loc[w].items) = <<>> THEN "none" ELSE "added"
             /\ \A p \in ProductIds :
                   CartQuantity(cartItems', loc[w].cart_id, p, 1)
                   = CartQuantity(cartItems, loc[w].cart_id, p, 1)
                     + SummaryQty(AddedOf(loc[w].items), p)]_vars

\* "1x lamp, 1x Mouse" was added to the cart of 2 Headphones and 1 Mouse while
\* the Mouse was on sale: the lamp is dropped, the Mouse line holds 2; and the
\* same string named nothing on sale for the other caller
C23_Witness ==
    \E w \in Workers :
        /\ pc[w] = "idle" /\ res[w].op = "add_to_cart" /\ res[w].status = "added"
        /\ res[w].phone = "0771234567"
        /\ res[w].summary = <<[qty |-> 1, product_id |-> 2]>>
        /\ CartQuantity(cartItems, 1, 2, 1) = 2
        /\ CartQuantity(cartItems, 1, 1, 1) = 2

\* the OrderItems of an order from row k on, as lines
RECURSIVE OrderLines(_, _)
OrderLines(id, k) ==
    IF k > Len(orderItems') THEN <<>>
    ELSE (IF orderItems'[k].orderId = id
          THEN <<[product_id |-> orderItems'[k].productId,
                  quantity |-> orderItems'[k].quantity,
                  unit_price |-> orderItems'[k].unitPrice]>>
          ELSE <<>>)
         \o OrderLines(id, k + 1)

\* the last step of a generate_invoice call that answers with the invoice
InvoiceSucceeds(w) ==
    /\ pc[w] = "invoice_items" /\ pc'[w] = "idle"
    /\ res'[w].op = "generate_invoice" /\ res'[w].status = "invoice"

\* the invoice's Order: the one new order, PENDING, of the cart's lines at
\* their current prices, with their sum as the total
InvoiceOrderIsCart(w) ==
    LET id == res'[w].order_id
        lines == CartLines(CartRows(ItemsOf(loc[w].cart_id, 1)))
    IN  /\ id = Len(orders') /\ id = loc[w].order_id
        /\ orders'[id].status = "PENDING"
        /\ orders'[id].customerPhone = res'[w].phone
        /\ OrderLines(id, 1) = lines
        /\ orders'[id].totalAmount = LineTotal(lines)

\* C24: when tool calls follow one another, a successful generate_invoice
\* on a non-empty cart has created one new PENDING Order whose OrderItems are
\* the cart's lines and whose total is their sum, and afterwards the
\* customer's Cart and its CartItems no longer exist.
C24_InvoiceSnapshotsAndEmptiesCart ==
    [][\A w \in Workers : InvoiceSucceeds(w) =>
          /\ InvoiceOrderIsCart(w)
          /\ \A k \in 1 .. Len(carts') :
                carts'[k].user_phone = res'[w].phone => ~carts'[k].exists
          /\ \A k \in 1 .. Len(cartItems') :
                cartItems'[k].cart_id = loc[w].cart_id => ~cartItems'[k].exists]_vars

\* the answer "Your cart is empty!", with nothing written
Refuses(w) ==
    /\ pc'[w] = "idle"
    /\ res'[w].op = "generate_invoice" /\ res'[w].status = "empty"
    /\ UNCHANGED <<products, orders, orderItems, carts, cartItems>>

\* C25: generate_invoice refuses when the customer has no cart, or when the
\* cart it found holds no item: it answers that the cart is empty and
\* no step of the call creates an Order or an OrderItem, changes a stock or
\* touches the cart.
C25_EmptyCartRefused ==
    [][\A w \in Workers :
          /\ \A c \in Customers : InvoiceStart(w, c) =>
                /\ UNCHANGED <<products, orders, orderItems, carts, cartItems>>
                /\ CartOf(c.user_phone) = 0 => Refuses(w)
          /\ ( /\ pc[w] = "invoice_cart" /\ pc'[w] # "invoice_cart"
               /\ ItemsOf(loc[w].cart_id, 1) = <<>> ) => Refuses(w)]_vars

\* both refusals happened: one caller has no cart, the other an empty one
C25_Witness ==
    /\ \A w \in Workers :
          /\ pc[w] = "idle"
          /\ res[w].op = "generate_invoice" /\ res[w].status = "empty"
    /\ \E w, v \in Workers :
          /\ CartOf(res[w].phone) = 0
          /\ CartOf(res[v].phone) # 0 /\ ItemsOf(CartOf(res[v].phone), 1) = <<>>
    /\ orders = <<>> /\ orderItems = <<>>

\* C26: the commit that creates the OrderItems of an invoice also lowers the
\* stockQuantity of every ordered product by exactly the ordered quantity.
C26_InvoiceDecrementsStock ==
    [][\A w \in Workers : InvoiceSucceeds(w) =>
          \A p \in ProductIds :
             products'[p].stockQuantity
             = products[p].stockQuantity - QtyOf(loc[w].order_items, p)]_vars

\* a cart line that an order may be made of: its product exists, is on sale
\* and has the line's quantity in stock
LineAvailable(line) ==
    /\ products[line.product_id].exists
    /\ products[line.product_id].isActive
    /\ products[line.product_id].stockQuantity >= line.quantity

\* C27: generate_invoice creates an Order from a cart only when, at the time it
\* reads the products of the cart lines, every line's product exists, is active
\* and has at least the line's quantity in stock; otherwise it rejects the call.
C27_SnapshotRechecksLines ==
    [][\A w \in Workers :
          ( /\ pc[w] = "invoice_lines" /\ pc'[w] # "invoice_lines"
            /\ \E k \in 1 .. Len(loc[w].items) : ~LineAvailable(loc[w].items[k]) )
          => /\ pc'[w] = "idle"
             /\ res'[w].op = "generate_invoice" /\ res'[w].status = "error"]_vars

\* C28: when a step of generate_invoice fails after the Order row was written,
\* the Order is rolled back with it: no Order of the call persists.
C28_InvoiceAtomic ==
    [][\A w \in Workers :
          ( /\ pc[w] = "invoice_items" /\ pc'[w] = "idle"
            /\ res'[w].op = "generate_invoice" /\ res'[w].status = "error" )
          => Len(orders') < loc[w].order_id]_vars

\* the product and quantity of every line
Bare(lines) ==
    [k \in 1 .. Len(lines) |->
        [product_id |-> lines[k].product_id, quantity |-> lines[k].quantity]]

\* C29: under concurrent add_to_cart and get_payment_details calls, the items
\* generate_invoice holds are the cart's rows as they were in the one state
\* where it loaded them, the Order of a successful call has exactly those
\* items with their sum as its total, and no step of generate_invoice changes
\* the cart, so that what another call added stays in the cart that remains.
C29_ConsistentCartSnapshot ==
    [][\A w \in Workers :
          /\ (pc[w] = "invoice_cart" /\ pc'[w] = "invoice_lines")
                => loc'[w].items = CartRows(ItemsOf(loc[w].cart_id, 1))
          /\ ( /\ pc[w] \in {"invoice_lines", "invoice_order"}
               /\ pc'[w] \in {"invoice_order", "invoice_items"} )
                => loc'[w].items = loc[w].items
          /\ InvoiceSucceeds(w) =>
                /\ Bare(OrderLines(res'[w].order_id, 1)) = loc[w].items
                /\ orders'[res'[w].order_id].totalAmount
                   = LineTotal(OrderLines(res'[w].order_id, 1))
          /\ ( /\ pc'[w] # pc[w]
               /\ \/ pc[w] \in {"invoice_cart", "invoice_lines", "invoice_order",
                                  "invoice_items"}
                  \/ pc'[w] = "invoice_cart" )
                => UNCHANGED <<carts, cartItems>>]_vars

\* the Order of an invoice is committed while the cart holds more than the
\* call loaded: an add_to_cart call of the customer has committed meanwhile
C29_Witness ==
    \E w \in Workers :
        /\ pc[w] = "invoice_items"
        /\ Len(orders) = loc[w].order_id
        /\ carts[loc[w].cart_id].exists
        /\ CartRows(ItemsOf(loc[w].cart_id, 1)) # loc[w].items
        /\ \E v \in Workers :
              /\ res[v].op = "add_to_cart" /\ res[v].status = "added"
              /\ res[v].phone = loc[w].c.user_phone

\* after the step no Cart and no CartItem of the identity exists, and the
\* carts and cart items of the other identities are as before
Cleared(phone) ==
    /\ \A k \in 1 .. Len(carts') : carts'[k].user_phone = phone => ~carts'[k].exists
    /\ \A k \in 1 .. Len(cartItems') :
          carts'[cartItems'[k].cart_id].user_phone = phone => ~cartItems'[k].exists
    /\ Len(carts') = Len(carts) /\ Len(cartItems') = Len(cartItems)
    /\ \A k \in 1 .. Len(carts) : carts[k].user_phone # phone => carts'[k] = carts[k]
    /\ \A k \in 1 .. Len(cartItems) :
          carts[cartItems[k].cart_id].user_phone # phone => cartItems'[k] = cartItems[k]

\* C30 as stated: every get_payment_details(phone) call that returns has
\* cleared the cart of phone and left the other carts alone.
C30_PaymentInfoClearsCart ==
    [][\A w \in Workers, ph \in Phones :
          (get_payment_details(w, ph) /\ res'[w].status # "raised")
          => Cleared(ph)]_vars

\* C30 amended: every get_payment_details(phone) call that returns the payment
\* instructions, the bank details being configured, has cleared the cart of
\* phone, whether or not one existed, and left the other carts alone.
C30_IssuedPaymentInfoClearsCart ==
    [][\A w \in Workers, ph \in Phones :
          ( /\ get_payment_details(w, ph)
            /\ res'[w].status # "raised"
            /\ Truthy(bank_details) )
          => Cleared(ph)]_vars

\* the cart of 2 Headphones and 1 Mouse was cleared with the bank details
\* configured, and the cart of the other customer still holds its line
C30_Witness ==
    /\ Truthy(bank_details)
    /\ Len(carts) >= 2 /\ Len(cartItems) >= 3
    /\ ~carts[1].exists /\ carts[1].user_phone = "0771234567"
    /\ \A k \in 1 .. 2 : ~cartItems[k].exists /\ cartItems[k].cart_id = 1
    /\ CartOf("0771234567") = 0
    /\ CartOf("0770000000") # 0
    /\ ItemsOf(CartOf("0770000000"), 1) # <<>>

----------------------------------------------------------------------------
(* Storefront requests *)

\* the request worker w is handling names a product id that no Product row has
NamesUnresolved(w) ==
    \E k \in 1 .. Len(loc[w].req.items) :
        ~products[loc[w].req.items[k].product_id].exists

\* C31: a storefront request, to POST /orders/place or to POST
\* /orders/initiate, that names a product id which does not resolve creates
\* no Order and no OrderItem.
C31_UnresolvedIdFailsRequest ==
    [][\A w \in Workers :
          ( /\ PlaceCommit(w) \/ DraftOrder(w) \/ DraftItems(w)
            /\ NamesUnresolved(w) )
          => orders' = orders /\ orderItems' = orderItems]_vars

\* C32: a PlaceOrder call that finds the customer's User row writes a profile
\* field (name, address, email) of it only when the request supplies a
\* non-empty value and the stored value is absent: a populated field is never
\* replaced, by an empty value or by a different non-empty one.
C32_PopulatedProfileKept ==
    [][\A w \in Workers :
          (PlaceCommit(w) /\ ~loc[w].insert_user)
          => LET r == loc[w].req
                 old == users[r.user_phone]
                 new == users'[r.user_phone]
                 Kept(stored, sent_value, written) ==
                     written # stored
                     => Truthy(sent_value) /\ ~Truthy(stored) /\ written = sent_value
             IN  /\ Kept(old.name, r.user_name, new.name)
                 /\ Kept(old.address, r.shipping_address, new.address)
                 /\ Kept(old.email, r.user_email, new.email)]_vars

\* C33: POST /orders/place rejects a request with an invalid payment method
\* with 422 naming payment_method, one with an empty item list with 422 naming
\* items, a line whose product is not found or inactive with 404, and a line
\* that asks more than the stock with 400; no other request is rejected at
\* these points, and each rejection leaves every table as it was.
C33_DistinctRejections ==
    [][\A w \in Workers :
          /\ \A r \in StoreRequests :
                PlaceStart(w, r)
                => LET bad_method == r.payment_method \notin {"Debit Card", "Cash on Delivery"}
                       no_items == r.items = <<>>
                       rejected == pc'[w] = "idle" /\ res'[w].status = 422
                   IN  /\ rejected <=> (bad_method \/ no_items)
                       /\ rejected
                          => /\ (("payment_method" \in res'[w].detail) <=> bad_method)
                             /\ (("items" \in res'[w].detail) <=> no_items)
                             /\ UNCHANGED dbvars
          /\ PlaceValidate(w)
             => LET item == loc[w].req.items[loc[w].i]
                    product == products[item.product_id]
                    missing == ~(product.exists /\ product.isActive)
                    short == ~missing /\ product.stockQuantity < item.quantity
                    rejected(code) == /\ pc'[w] = "idle" /\ res'[w].status = code
                                      /\ UNCHANGED dbvars
                IN  /\ missing => rejected(404)
                    /\ short => rejected(400)
                    /\ (~missing /\ ~short) => pc'[w] # "idle"]_vars

\* one request was rejected for its payment method alone and another for
\* its stock, and no order was written
C33_Witness ==
    \E w, v \in Workers :
        /\ pc[w] = "idle" /\ res[w].op = "place_order" /\ res[w].status = 422
        /\ res[w].detail = {"payment_method"}
        /\ pc[v] = "idle" /\ res[v].op = "place_order" /\ res[v].status = 400
        /\ orders = <<>> /\ orderItems = <<>>

----------------------------------------------------------------------------
(* Failures of the conversational tools *)

\* C34: no call of a conversational tool ends in an exception: whatever
\* fails, a storage failure included, the caller gets a text.
C34_ToolsNeverRaise ==
    \A w \in Workers :
        /\ res[w].op \in {"add_to_cart", "generate_invoice", "get_payment_details"}
           => res[w].status # "raised"
        /\ res[w].op = "confirm_user_payment" => res[w].text # "raised"

----------------------------------------------------------------------------
(* The transcript and the agent's memory *)

\* C35: the Message transcript is append-only: no step changes a stored
\* message; a step removes messages only when it is the clear-history
\* command, which removes every message of its identity and none of another;
\* a new message has content that is not empty or blank, and a message of
\* blank text appends nothing.
C35_TranscriptAppendOnly ==
    [][/\ Len(messages') >= Len(messages)
       /\ \A k \in 1 .. Len(messages) :
             \/ messages'[k] = messages[k]
             \/ /\ messages[k].exists
                /\ messages'[k] = [messages[k] EXCEPT !.exists = FALSE]
       /\ \A k \in (Len(messages) + 1) .. Len(messages') :
             messages'[k].exists /\ Strip(messages'[k].content) # <<>>
       /\ (\E k \in 1 .. Len(messages) : messages[k].exists /\ ~messages'[k].exists)
          => \E ph \in Phones :
                /\ \E t \in TextInputs :
                      /\ whatsapp_webhook(ph, t)
                      /\ Lower(Strip(t)) = <<"/", "c", "l", "e", "a", "r">>
                /\ \A k \in 1 .. Len(messages') :
                      messages'[k].user_phone = ph => ~messages'[k].exists
                /\ \A k \in 1 .. Len(messages) :
                      messages[k].user_phone # ph => messages'[k] = messages[k]
       /\ \A ph \in Phones, t \in TextInputs :
             (whatsapp_webhook(ph, t) /\ Strip(t) = <<>>) => messages' = messages]_vars

\* the history of one identity was cleared and the message of the other is
\* still there
C35_Witness ==
    /\ Len(messages) >= 2
    /\ ~messages[1].exists /\ messages[1].user_phone = "0771234567"
    /\ messages[2].exists /\ messages[2].user_phone = "0770000000"

\* C36: after a turn whose utterance is accepted and matches a product, the
\* session's product pointer (product_id, product_name) is the product matched
\* in that turn, whatever it pointed at before.
C36_PointerFollowsLatestMatch ==
    [][\A q \in Utterances, u \in Phones, o \in {"mock", "error", "reply"} :
          (generate_response(q, u, o) /\ validate_query(q) /\ find_products(q) # 0)
          => /\ session_memory'[u].product_id = find_products(q)
             /\ session_memory'[u].product_name = ProductName[find_products(q)]]_vars

\* C40: after every call each user's in-memory history holds at most 20
\* entries; a generate_response call leaves the history of its user as the
\* most recent entries, in order, of the old history followed by the
\* exchange it stored, and the history of every other user as it was;
\* clear_history(u, c) removes the history of u, and the session of u unless c
\* is false, and leaves the history and the session of every other user as
\* they were.
C40_HistoryBoundedAndCleared ==
    [][/\ \A u \in Phones : Len(conversation_history'[u].entries) <= 20
       /\ \A q \in Utterances, u \in Phones, o \in {"mock", "error", "reply"} :
             (messages' = messages /\ generate_response(q, u, o))
             => LET stored == IF o = "reply" /\ validate_query(q)
                              THEN <<[role |-> "user", content |-> q],
                                     [role |-> "assistant", content |-> ai_response]>>
                              ELSE <<>>
                    all == conversation_history[u].entries \o stored
                    new == conversation_history'[u].entries
                    dropped == Len(all) - Len(new)
                IN  /\ dropped >= 0
                    /\ dropped > 0 => Len(new) = 20
                    /\ \A k \in 1 .. Len(new) : new[k] = all[k + dropped]
                    /\ \A v \in Phones \ {u} :
                          conversation_history'[v] = conversation_history[v]
       /\ \A u \in Phones, c \in BOOLEAN :
             clear_history(u, c)
             => /\ ~conversation_history'[u].present
                /\ conversation_history'[u].entries = <<>>
                /\ IF c THEN ~session_memory'[u].present
                   ELSE session_memory'[u] = session_memory[u]
                /\ \A v \in Phones \ {u} :
                      /\ conversation_history'[v] = conversation_history[v]
                      /\ session_memory'[v] = session_memory[v]]_vars

\* a full history lost its two oldest entries to the exchange just stored,
\* while the other user's history is as it was
C40_Witness ==
    LET entries == conversation_history["0771234567"].entries
    IN  /\ Len(entries) = 20
        /\ entries[1].content = <<"03">>
        /\ entries[19].role = "user" /\ entries[19].content \in Utterances
        /\ entries[20].content = ai_response
        /\ conversation_history["0770000000"] = Filled(2)

----------------------------------------------------------------------------
(* Interleavings *)

\* C37: with place_order calls alone, however they interleave, the stock of
\* every product is its initial stock less the quantities of all the
\* OrderItems written for it: no decrement is lost.
C37_NoLostDecrement ==
    LET RECURSIVE Ordered(_, _)
        Ordered(p, k) ==
            IF k > Len(orderItems) THEN 0
            ELSE (IF orderItems[k].productId = p THEN orderItems[k].quantity ELSE 0)
                 + Ordered(p, k + 1)
    IN  \A p \in ProductIds : products[p].stockQuantity = stock0[p] - Ordered(p, 1)

\* C38: the commit of a confirm_user_payment call changes the status of one
\* order at most, and only of an order that is PENDING when the change is
\* committed: a status that a status update, a receipt upload or another
\* confirmation set since the call looked the order up is not overwritten.
C38_ConfirmWritesPendingOnly ==
    [][\A w \in Workers :
          ConfirmCommit(w)
          => /\ \A id \in 1 .. Len(orders) :
                   orders'[id].status # orders[id].status
                   => id = loc[w].order_id /\ orders[id].status = "PENDING"
             /\ Len(orders') = Len(orders)]_vars

\* C39: under every interleaving of delete_product and place_order calls no
\* OrderItem refers to a product that was deleted: a delete_product call
\* deletes nothing when an OrderItem of the product exists.
C39_NoOrderItemOfDeletedProduct ==
    \A k \in 1 .. Len(orderItems) : products[orderItems[k].productId].exists

====
